---- MODULE Spec2Model ----
(***************************************************************************)
(* Ordered-set iterators of rs_ord_set_ops_iter: the leaf cursors          *)
(* (OrdListSetIter of ord_list_set and of ord_list_set_alt, Peekable over  *)
(* a BTreeSet iterator), the macro-based merge nodes (union_next!,         *)
(* intersection_next!, difference_next!, symmetric_difference_next! and    *)
(* their peep twins) and the enum-based OrdSetOpsIter / SetOperationIter.  *)
(*                                                                         *)
(* A cursor is a record tagged by t; Option<&T> is a sequence of length at *)
(* most one; every operation returns the value it yields together with the *)
(* cursor it leaves behind, because peep on a merge node moves children.   *)
(***************************************************************************)
EXTENDS Integers, Sequences, FiniteSets, TLC

VARIABLES
    cur,              \* the cursor under test: a merge node or a standalone leaf
    out,              \* the elements next() has returned so far, in order
    nones,            \* how many times next() has returned None (saturating)
    advanced,         \* advance_until or advance_after has been called on cur
    lastOp,           \* the last call made on cur
    lastRes,          \* what that call returned (None for the advance calls)
    lastArg,          \* standalone leaf: the argument of that call (target or n)
    prevIndex,        \* standalone leaf: its index before the last call
    overflow_checks,  \* the build panics on integer overflow (debug) or wraps (release)
    fault,            \* a call has panicked
    debug_assertions, \* the build evaluates debug_assert! (debug) or drops it (release)
    call,             \* set-level operations: the last call and its arguments
    ret               \* set-level operations: what that call returned

vars == <<cur, out, nones, advanced, lastOp, lastRes, lastArg, prevIndex,
          overflow_checks, fault, debug_assertions, call, ret>>

\* the variables of the cursor under test, fault excepted
iterVars == <<cur, out, nones, advanced, lastOp, lastRes, lastArg, prevIndex,
              overflow_checks>>

\* the variables of the set-level operations
setVars == <<debug_assertions, call, ret>>

\* no set-level call has been made
NoCall == [fn |-> "none"]

\* Elements are drawn from 1..MaxVal.
MaxVal == 3

\* How many times next() may return None on a merge node before the model stops calling it.
MaxPastEnd == 2

\* Constructor inputs have at most MaxLen elements.
MaxLen == 3

\* usize is modelled UsizeBits wide (the arithmetic is the same at 64).
UsizeBits == 3

UsizeModulus == 2 ^ UsizeBits

Vals == 1..MaxVal

\* Targets of advance_until / advance_after: members, non-members, and one above every element.
Targets == 1..(MaxVal + 1)

-----------------------------------------------------------------------------
(* Option<&T> *)

None == <<>>

Some(x) == <<x>>

is_some(o) == o # None

unwrap(o) == o[1]

-----------------------------------------------------------------------------
(* Sorted, duplicate-free sequences *)

Range(s) == {s[i] : i \in 1..Len(s)}

Min(S) == CHOOSE x \in S : \A y \in S : x <= y

RECURSIVE SortedSeq(_)
SortedSeq(S) == IF S = {} THEN <<>> ELSE <<Min(S)>> \o SortedSeq(S \ {Min(S)})

SortedSeqs == {SortedSeq(S) : S \in SUBSET Vals}

is_sorted_and_no_dups(list) == \A i \in 1..(Len(list) - 1) : list[i] < list[i + 1]

\* elements.get(index), index counted from 0
get(elements, index) ==
    IF index < Len(elements) THEN Some(elements[index + 1]) ELSE None

\* elements[index..]
slice_from(elements, index) == SubSeq(elements, index + 1, Len(elements))

\* a search of the same slice for the same answer, one element after the other
RECURSIVE bisect_linear(_, _, _, _)
bisect_linear(s, t, lo, hi) ==
    IF lo >= hi THEN [ok |-> FALSE, index |-> lo, comparisons |-> 0]
    ELSE IF s[lo + 1] = t THEN [ok |-> TRUE, index |-> lo, comparisons |-> 1]
    ELSE IF s[lo + 1] < t
         THEN [bisect_linear(s, t, lo + 1, hi) EXCEPT !.comparisons = @ + 1]
    ELSE [ok |-> FALSE, index |-> lo, comparisons |-> 1]

\* <[T]>::binary_search on a sorted slice: Ok(position) or Err(insertion point),
\* and the number of elements the target was compared with
RECURSIVE bisect(_, _, _, _)
bisect(s, t, lo, hi) ==
    IF lo >= hi THEN [ok |-> FALSE, index |-> lo, comparisons |-> 0]
    ELSE LET mid == lo + ((hi - lo) \div 2) IN
         IF s[mid + 1] = t THEN [ok |-> TRUE, index |-> mid, comparisons |-> 1]
         ELSE IF s[mid + 1] < t
              THEN [bisect(s, t, mid + 1, hi) EXCEPT !.comparisons = @ + 1]
         ELSE [bisect(s, t, lo, mid) EXCEPT !.comparisons = @ + 1]

binary_search(s, t) == bisect(s, t, 0, Len(s))

\* usize addition as a release build computes it
wrapping_add(a, b) == (a + b) % UsizeModulus

\* the same addition overflows (and panics when overflow checks are compiled in)
add_overflows(a, b) == a + b >= UsizeModulus

-----------------------------------------------------------------------------
(* OrdListSetIter of ord_list_set: elements, index *)

OrdListSetIter(elements) ==
    [t |-> "OrdListSetIter", elements |-> elements, index |-> 0]

OrdListSetIter_next(c) ==
    [val  |-> get(c.elements, c.index),
     iter |-> [c EXCEPT !.index = wrapping_add(c.index, 1)]]

\* self.index += 1 overflows
OrdListSetIter_next_panics(c) == overflow_checks /\ add_overflows(c.index, 1)

OrdListSetIter_peep(c) == [val |-> get(c.elements, c.index), iter |-> c]

\* advance_until taking Ok(index) => index + 1, as advance_after does
OrdListSetIter_advance_until_skips_found(c, t) ==
    LET item == get(c.elements, c.index) IN
    IF is_some(item) /\ unwrap(item) < t
    THEN LET r == binary_search(slice_from(c.elements, c.index), t) IN
         [c EXCEPT !.index = wrapping_add(c.index, IF r.ok THEN r.index + 1 ELSE r.index)]
    ELSE c

OrdListSetIter_advance_until(c, t) ==
    LET item == get(c.elements, c.index) IN
    IF is_some(item) /\ unwrap(item) < t
    THEN LET r == binary_search(slice_from(c.elements, c.index), t) IN
         [c EXCEPT !.index = wrapping_add(c.index, r.index)]
    ELSE c

\* advance_after stopping on an element equal to the target
OrdListSetIter_advance_after_keeps_equal(c, t) ==
    LET item == get(c.elements, c.index) IN
    IF is_some(item) /\ unwrap(item) <= t
    THEN LET r == binary_search(slice_from(c.elements, c.index), t) IN
         [c EXCEPT !.index = wrapping_add(c.index, r.index)]
    ELSE c

OrdListSetIter_advance_after(c, t) ==
    LET item == get(c.elements, c.index) IN
    IF is_some(item) /\ unwrap(item) <= t
    THEN LET r == binary_search(slice_from(c.elements, c.index), t) IN
         [c EXCEPT !.index = wrapping_add(c.index, IF r.ok THEN r.index + 1 ELSE r.index)]
    ELSE c

\* collect: self.elements[self.index..].iter().collect()
OrdListSetIter_collect(c) == slice_from(c.elements, c.index)

\* the slice elements[index..] is out of range when index > len
OrdListSetIter_collect_panics(c) == c.index > Len(c.elements)

\* nth: self.index += n; self.next()
OrdListSetIter_nth(c, n) ==
    OrdListSetIter_next([c EXCEPT !.index = wrapping_add(c.index, n)])

OrdListSetIter_nth_panics(c, n) ==
    overflow_checks /\ (add_overflows(c.index, n) \/ add_overflows(c.index + n, 1))

-----------------------------------------------------------------------------
(* OrdListSetIter of ord_list_set_alt: elements, iter (a slice iterator,   *)
(* kept as the offset of its first remaining element), index               *)

AltOrdListSetIter(elements) ==
    [t |-> "AltOrdListSetIter", elements |-> elements, iter |-> 0, index |-> 0]

\* std::slice::Iter::next
slice_iter_next(elements, iter) ==
    [val |-> get(elements, iter),
     iter |-> IF iter < Len(elements) THEN iter + 1 ELSE iter]

AltOrdListSetIter_next(c) ==
    LET r == slice_iter_next(c.elements, c.iter) IN
    [val  |-> r.val,
     iter |-> [c EXCEPT !.index = wrapping_add(c.index, 1), !.iter = r.iter]]

AltOrdListSetIter_next_panics(c) == overflow_checks /\ add_overflows(c.index, 1)

AltOrdListSetIter_peep(c) == [val |-> get(c.elements, c.index), iter |-> c]

\* advance_until without the guard against going backwards: the whole slice is searched
AltOrdListSetIter_advance_until_unguarded(c, t) ==
    LET r == binary_search(c.elements, t) IN
    [c EXCEPT !.index = r.index, !.iter = r.index]

AltOrdListSetIter_advance_until(c, t) ==
    LET item == get(c.elements, c.index) IN
    IF is_some(item) /\ unwrap(item) < t
    THEN LET r == binary_search(slice_from(c.elements, c.index), t)
             index == wrapping_add(c.index, r.index) IN
         [c EXCEPT !.index = index, !.iter = index]
    ELSE c

AltOrdListSetIter_advance_after(c, t) ==
    LET item == get(c.elements, c.index) IN
    IF is_some(item) /\ unwrap(item) <= t
    THEN LET r == binary_search(slice_from(c.elements, c.index), t)
             index == wrapping_add(c.index, IF r.ok THEN r.index + 1 ELSE r.index) IN
         [c EXCEPT !.index = index, !.iter = index]
    ELSE c

\* collect: self.elements[self.index..].iter().collect()
AltOrdListSetIter_collect(c) == slice_from(c.elements, c.index)

AltOrdListSetIter_collect_panics(c) == c.index > Len(c.elements)

\* nth: self.index += n; self.iter = self.elements[self.index..].iter(); self.next()
AltOrdListSetIter_nth(c, n) ==
    LET index == wrapping_add(c.index, n) IN
    AltOrdListSetIter_next([c EXCEPT !.index = index, !.iter = index])

\* the slice elements[index..] is out of range when index > len
AltOrdListSetIter_nth_panics(c, n) ==
    \/ overflow_checks /\ (add_overflows(c.index, n) \/ add_overflows(c.index + n, 1))
    \/ wrapping_add(c.index, n) > Len(c.elements)

-----------------------------------------------------------------------------
(* Peekable<btree_set::Iter>: the set's members in order and a position;   *)
(* advance_until and advance_after are the trait's default linear scans    *)

Peekable(elements) == [t |-> "Peekable", elements |-> elements, pos |-> 0]

Peekable_next(c) ==
    [val  |-> get(c.elements, c.pos),
     iter |-> IF c.pos < Len(c.elements) THEN [c EXCEPT !.pos = c.pos + 1] ELSE c]

Peekable_peep(c) == [val |-> get(c.elements, c.pos), iter |-> c]

-----------------------------------------------------------------------------
(* OrdSetOpsIterAdapter of ord_set_ops_iter: a Peekable behind next/peek   *)

OrdSetOpsIterAdapter(elements) ==
    [t |-> "OrdSetOpsIterAdapter", elements |-> elements, pos |-> 0]

OrdSetOpsIterAdapter_next(c) ==
    [val  |-> get(c.elements, c.pos),
     iter |-> IF c.pos < Len(c.elements) THEN [c EXCEPT !.pos = c.pos + 1] ELSE c]

OrdSetOpsIterAdapter_peek(c) == [val |-> get(c.elements, c.pos), iter |-> c]

-----------------------------------------------------------------------------
(* The cursor capability, dispatched on the cursor's type *)

RECURSIVE next(_), peep(_), advance_until(_, _), advance_after(_, _)

\* `if let Some(item) = iter.peep() { .. }`: v is computed once and bound in F
With(v, F(_)) == F(v)

\* PeepAdvanceIter::advance_until, the default: consume while target > item
RECURSIVE default_advance_until(_, _)
default_advance_until(c, target) ==
    With(peep(c), LAMBDA p :
    IF is_some(p.val) /\ target > unwrap(p.val)
    THEN default_advance_until(next(p.iter).iter, target)
    ELSE p.iter)

\* PeepAdvanceIter::advance_after, the default: consume while target >= item
RECURSIVE default_advance_after(_, _)
default_advance_after(c, target) ==
    With(peep(c), LAMBDA p :
    IF is_some(p.val) /\ target >= unwrap(p.val)
    THEN default_advance_after(next(p.iter).iter, target)
    ELSE p.iter)

\* the two children of a merge step put back into the node
with_children(c, m) ==
    [val  |-> m.val,
     iter |-> [c EXCEPT !.left_iter = m.left_iter, !.right_iter = m.right_iter]]

merged(val, left_iter, right_iter) ==
    [val |-> val, left_iter |-> left_iter, right_iter |-> right_iter]

-----------------------------------------------------------------------------
(* union_next! / union_peep! *)

\* union_next! with the Equal arm consuming the left cursor only
union_next_keeps_right(left_iter, right_iter) ==
    With(peep(left_iter), LAMBDA l :
    IF is_some(l.val)
    THEN With(peep(right_iter), LAMBDA r :
         IF is_some(r.val)
         THEN IF unwrap(l.val) <= unwrap(r.val)
              THEN With(next(l.iter), LAMBDA n : merged(n.val, n.iter, r.iter))
              ELSE With(next(r.iter), LAMBDA n : merged(n.val, l.iter, n.iter))
         ELSE With(next(l.iter), LAMBDA n : merged(n.val, n.iter, r.iter)))
    ELSE With(next(right_iter), LAMBDA n : merged(n.val, l.iter, n.iter)))

\* union_next! yielding nothing more once the left cursor is exhausted
union_next_left_only_tail(left_iter, right_iter) ==
    With(peep(left_iter), LAMBDA l :
    IF is_some(l.val)
    THEN With(peep(right_iter), LAMBDA r :
         IF is_some(r.val)
         THEN IF unwrap(l.val) < unwrap(r.val)
              THEN With(next(l.iter), LAMBDA n : merged(n.val, n.iter, r.iter))
              ELSE IF unwrap(l.val) > unwrap(r.val)
              THEN With(next(r.iter), LAMBDA n : merged(n.val, l.iter, n.iter))
              ELSE With(next(l.iter), LAMBDA n : merged(n.val, n.iter, next(r.iter).iter))
         ELSE With(next(l.iter), LAMBDA n : merged(n.val, n.iter, r.iter)))
    ELSE merged(None, l.iter, right_iter))

union_next(left_iter, right_iter) ==
    With(peep(left_iter), LAMBDA l :
    IF is_some(l.val)
    THEN With(peep(right_iter), LAMBDA r :
         IF is_some(r.val)
         THEN IF unwrap(l.val) < unwrap(r.val)
              THEN With(next(l.iter), LAMBDA n : merged(n.val, n.iter, r.iter))
              ELSE IF unwrap(l.val) > unwrap(r.val)
              THEN With(next(r.iter), LAMBDA n : merged(n.val, l.iter, n.iter))
              ELSE With(next(l.iter), LAMBDA n : merged(n.val, n.iter, next(r.iter).iter))
         ELSE With(next(l.iter), LAMBDA n : merged(n.val, n.iter, r.iter)))
    ELSE With(next(right_iter), LAMBDA n : merged(n.val, l.iter, n.iter)))

\* union_peep! with the arms of the comparison exchanged
union_peep_swapped(left_iter, right_iter) ==
    With(peep(left_iter), LAMBDA l :
    IF is_some(l.val)
    THEN With(peep(right_iter), LAMBDA r :
         IF is_some(r.val)
         THEN IF unwrap(l.val) <= unwrap(r.val)
              THEN merged(r.val, l.iter, r.iter)
              ELSE merged(l.val, l.iter, r.iter)
         ELSE merged(l.val, l.iter, r.iter))
    ELSE With(peep(right_iter), LAMBDA r : merged(r.val, l.iter, r.iter)))

\* union_peep! showing the left item whenever there is one
union_peep_left_first(left_iter, right_iter) ==
    With(peep(left_iter), LAMBDA l :
    IF is_some(l.val)
    THEN merged(l.val, l.iter, right_iter)
    ELSE With(peep(right_iter), LAMBDA r : merged(r.val, l.iter, r.iter)))

union_peep(left_iter, right_iter) ==
    With(peep(left_iter), LAMBDA l :
    IF is_some(l.val)
    THEN With(peep(right_iter), LAMBDA r :
         IF is_some(r.val)
         THEN IF unwrap(l.val) <= unwrap(r.val)
              THEN merged(l.val, l.iter, r.iter)
              ELSE merged(r.val, l.iter, r.iter)
         ELSE merged(l.val, l.iter, r.iter))
    ELSE With(peep(right_iter), LAMBDA r : merged(r.val, l.iter, r.iter)))

-----------------------------------------------------------------------------
(* intersection_next! / intersection_peep! *)

\* intersection_next! with the Less arm skipping past the right item (advance_after)
RECURSIVE intersection_next_skips_match(_, _)
intersection_next_skips_match(left_iter, right_iter) ==
    With(peep(left_iter), LAMBDA l :
    IF is_some(l.val)
    THEN With(peep(right_iter), LAMBDA r :
         IF is_some(r.val)
         THEN IF unwrap(l.val) < unwrap(r.val)
              THEN intersection_next_skips_match(advance_after(l.iter, unwrap(r.val)), r.iter)
              ELSE IF unwrap(l.val) > unwrap(r.val)
              THEN intersection_next_skips_match(l.iter, advance_until(r.iter, unwrap(l.val)))
              ELSE With(next(l.iter), LAMBDA n : merged(n.val, n.iter, next(r.iter).iter))
         ELSE merged(None, l.iter, r.iter))
    ELSE merged(None, l.iter, right_iter))

RECURSIVE intersection_next(_, _)
intersection_next(left_iter, right_iter) ==
    With(peep(left_iter), LAMBDA l :
    IF is_some(l.val)
    THEN With(peep(right_iter), LAMBDA r :
         IF is_some(r.val)
         THEN IF unwrap(l.val) < unwrap(r.val)
              THEN intersection_next(advance_until(l.iter, unwrap(r.val)), r.iter)
              ELSE IF unwrap(l.val) > unwrap(r.val)
              THEN intersection_next(l.iter, advance_until(r.iter, unwrap(l.val)))
              ELSE With(next(l.iter), LAMBDA n : merged(n.val, n.iter, next(r.iter).iter))
         ELSE merged(None, l.iter, r.iter))
    ELSE merged(None, l.iter, right_iter))

RECURSIVE intersection_peep(_, _)
intersection_peep(left_iter, right_iter) ==
    With(peep(left_iter), LAMBDA l :
    IF is_some(l.val)
    THEN With(peep(right_iter), LAMBDA r :
         IF is_some(r.val)
         THEN IF unwrap(l.val) < unwrap(r.val)
              THEN intersection_peep(advance_until(l.iter, unwrap(r.val)), r.iter)
              ELSE IF unwrap(l.val) > unwrap(r.val)
              THEN intersection_peep(l.iter, advance_until(r.iter, unwrap(l.val)))
              ELSE merged(l.val, l.iter, r.iter)
         ELSE merged(None, l.iter, r.iter))
    ELSE merged(None, l.iter, right_iter))

-----------------------------------------------------------------------------
(* difference_next! / difference_peep! *)

\* difference_next! stopping when the right cursor is exhausted
RECURSIVE difference_next_stops_early(_, _)
difference_next_stops_early(left_iter, right_iter) ==
    With(peep(left_iter), LAMBDA l :
    IF is_some(l.val)
    THEN With(peep(right_iter), LAMBDA r :
         IF is_some(r.val)
         THEN IF unwrap(l.val) < unwrap(r.val)
              THEN With(next(l.iter), LAMBDA n : merged(n.val, n.iter, r.iter))
              ELSE IF unwrap(l.val) > unwrap(r.val)
              THEN difference_next_stops_early(l.iter, advance_until(r.iter, unwrap(l.val)))
              ELSE difference_next_stops_early(next(l.iter).iter, next(r.iter).iter)
         ELSE merged(None, l.iter, r.iter))
    ELSE merged(None, l.iter, right_iter))

RECURSIVE difference_next(_, _)
difference_next(left_iter, right_iter) ==
    With(peep(left_iter), LAMBDA l :
    IF is_some(l.val)
    THEN With(peep(right_iter), LAMBDA r :
         IF is_some(r.val)
         THEN IF unwrap(l.val) < unwrap(r.val)
              THEN With(next(l.iter), LAMBDA n : merged(n.val, n.iter, r.iter))
              ELSE IF unwrap(l.val) > unwrap(r.val)
              THEN difference_next(l.iter, advance_until(r.iter, unwrap(l.val)))
              ELSE difference_next(next(l.iter).iter, next(r.iter).iter)
         ELSE With(next(l.iter), LAMBDA n : merged(n.val, n.iter, r.iter)))
    ELSE merged(None, l.iter, right_iter))

\* difference_peep! with the Less arm consuming the left item, as difference_next! does
RECURSIVE difference_peep_consumes(_, _)
difference_peep_consumes(left_iter, right_iter) ==
    With(peep(left_iter), LAMBDA l :
    IF is_some(l.val)
    THEN With(peep(right_iter), LAMBDA r :
         IF is_some(r.val)
         THEN IF unwrap(l.val) < unwrap(r.val)
              THEN With(next(l.iter), LAMBDA n : merged(n.val, n.iter, r.iter))
              ELSE IF unwrap(l.val) > unwrap(r.val)
              THEN difference_peep_consumes(l.iter, advance_until(r.iter, unwrap(l.val)))
              ELSE difference_peep_consumes(next(l.iter).iter, next(r.iter).iter)
         ELSE merged(l.val, l.iter, r.iter))
    ELSE merged(None, l.iter, right_iter))

RECURSIVE difference_peep(_, _)
difference_peep(left_iter, right_iter) ==
    With(peep(left_iter), LAMBDA l :
    IF is_some(l.val)
    THEN With(peep(right_iter), LAMBDA r :
         IF is_some(r.val)
         THEN IF unwrap(l.val) < unwrap(r.val)
              THEN merged(l.val, l.iter, r.iter)
              ELSE IF unwrap(l.val) > unwrap(r.val)
              THEN difference_peep(l.iter, advance_until(r.iter, unwrap(l.val)))
              ELSE difference_peep(next(l.iter).iter, next(r.iter).iter)
         ELSE merged(l.val, l.iter, r.iter))
    ELSE merged(None, l.iter, right_iter))

-----------------------------------------------------------------------------
(* symmetric_difference_next! / symmetric_difference_peep! *)

\* symmetric_difference_next! with the Equal arm consuming the left cursor only
RECURSIVE symmetric_difference_next_keeps_right(_, _)
symmetric_difference_next_keeps_right(left_iter, right_iter) ==
    With(peep(left_iter), LAMBDA l :
    IF is_some(l.val)
    THEN With(peep(right_iter), LAMBDA r :
         IF is_some(r.val)
         THEN IF unwrap(l.val) < unwrap(r.val)
              THEN With(next(l.iter), LAMBDA n : merged(n.val, n.iter, r.iter))
              ELSE IF unwrap(l.val) > unwrap(r.val)
              THEN With(next(r.iter), LAMBDA n : merged(n.val, l.iter, n.iter))
              ELSE symmetric_difference_next_keeps_right(next(l.iter).iter, r.iter)
         ELSE With(next(l.iter), LAMBDA n : merged(n.val, n.iter, r.iter)))
    ELSE With(next(right_iter), LAMBDA n : merged(n.val, l.iter, n.iter)))

RECURSIVE symmetric_difference_next(_, _)
symmetric_difference_next(left_iter, right_iter) ==
    With(peep(left_iter), LAMBDA l :
    IF is_some(l.val)
    THEN With(peep(right_iter), LAMBDA r :
         IF is_some(r.val)
         THEN IF unwrap(l.val) < unwrap(r.val)
              THEN With(next(l.iter), LAMBDA n : merged(n.val, n.iter, r.iter))
              ELSE IF unwrap(l.val) > unwrap(r.val)
              THEN With(next(r.iter), LAMBDA n : merged(n.val, l.iter, n.iter))
              ELSE symmetric_difference_next(next(l.iter).iter, next(r.iter).iter)
         ELSE With(next(l.iter), LAMBDA n : merged(n.val, n.iter, r.iter)))
    ELSE With(next(right_iter), LAMBDA n : merged(n.val, l.iter, n.iter)))

RECURSIVE symmetric_difference_peep(_, _)
symmetric_difference_peep(left_iter, right_iter) ==
    With(peep(left_iter), LAMBDA l :
    IF is_some(l.val)
    THEN With(peep(right_iter), LAMBDA r :
         IF is_some(r.val)
         THEN IF unwrap(l.val) < unwrap(r.val)
              THEN merged(l.val, l.iter, r.iter)
              ELSE IF unwrap(l.val) > unwrap(r.val)
              THEN merged(r.val, l.iter, r.iter)
              ELSE symmetric_difference_peep(next(l.iter).iter, next(r.iter).iter)
         ELSE merged(l.val, l.iter, r.iter))
    ELSE With(peep(right_iter), LAMBDA r : merged(r.val, l.iter, r.iter)))

-----------------------------------------------------------------------------
(* OrdSetOpsIter::Intersection of ord_set_ops_iter (SetOperationIter in    *)
(* ord_set_op_iter has the same body): one comparison per call, no loop    *)

OrdSetOpsIter_Intersection_next(l_iter, r_iter) ==
    With(peep(l_iter), LAMBDA l :
    IF is_some(l.val)
    THEN With(peep(r_iter), LAMBDA r :
         IF is_some(r.val)
         THEN IF unwrap(l.val) < unwrap(r.val)
              THEN With(next(advance_until(l.iter, unwrap(r.val))), LAMBDA n :
                   merged(n.val, n.iter, r.iter))
              ELSE IF unwrap(l.val) > unwrap(r.val)
              THEN With(next(advance_until(r.iter, unwrap(l.val))), LAMBDA n :
                   merged(n.val, l.iter, n.iter))
              ELSE With(next(l.iter), LAMBDA n : merged(n.val, n.iter, r.iter))
         ELSE merged(None, l.iter, r.iter))
    ELSE merged(None, l.iter, r_iter))

OrdSetOpsIter_Intersection_peek(l_iter, r_iter) ==
    With(peep(l_iter), LAMBDA l :
    IF is_some(l.val)
    THEN With(peep(r_iter), LAMBDA r :
         IF is_some(r.val)
         THEN IF unwrap(l.val) < unwrap(r.val)
              THEN With(peep(advance_until(l.iter, unwrap(r.val))), LAMBDA p :
                   merged(p.val, p.iter, r.iter))
              ELSE IF unwrap(l.val) > unwrap(r.val)
              THEN With(peep(advance_until(r.iter, unwrap(l.val))), LAMBDA p :
                   merged(p.val, l.iter, p.iter))
              ELSE merged(l.val, l.iter, r.iter)
         ELSE merged(None, l.iter, r.iter))
    ELSE merged(None, l.iter, r_iter))

\* OrdSetOpsIter::Union: next
OrdSetOpsIter_Union_next(l_iter, r_iter) ==
    With(peep(l_iter), LAMBDA l :
    IF is_some(l.val)
    THEN With(peep(r_iter), LAMBDA r :
         IF is_some(r.val)
         THEN IF unwrap(l.val) < unwrap(r.val)
              THEN With(next(l.iter), LAMBDA n : merged(n.val, n.iter, r.iter))
              ELSE IF unwrap(l.val) > unwrap(r.val)
              THEN With(next(r.iter), LAMBDA n : merged(n.val, l.iter, n.iter))
              ELSE With(next(l.iter), LAMBDA n : merged(n.val, n.iter, next(r.iter).iter))
         ELSE With(next(l.iter), LAMBDA n : merged(n.val, n.iter, r.iter)))
    ELSE With(next(r_iter), LAMBDA n : merged(n.val, l.iter, n.iter)))

\* OrdSetOpsIter::Union: peek
OrdSetOpsIter_Union_peek(l_iter, r_iter) ==
    With(peep(l_iter), LAMBDA l :
    IF is_some(l.val)
    THEN With(peep(r_iter), LAMBDA r :
         IF is_some(r.val)
         THEN IF unwrap(l.val) <= unwrap(r.val)
              THEN merged(l.val, l.iter, r.iter)
              ELSE merged(r.val, l.iter, r.iter)
         ELSE merged(l.val, l.iter, r.iter))
    ELSE With(peep(r_iter), LAMBDA r : merged(r.val, l.iter, r.iter)))

-----------------------------------------------------------------------------
(* Dispatch *)

MergeKinds == {"Union", "Intersection", "Difference", "SymmetricDifference"}

EnumKinds == {"OrdSetOpsIter::Intersection"}

next(c) ==
    CASE c.t = "OrdListSetIter"       -> OrdListSetIter_next(c)
      [] c.t = "AltOrdListSetIter"    -> AltOrdListSetIter_next(c)
      [] c.t = "Peekable"             -> Peekable_next(c)
      [] c.t = "OrdSetOpsIterAdapter" -> OrdSetOpsIterAdapter_next(c)
      [] c.t = "Union"                -> with_children(c, union_next(c.left_iter, c.right_iter))
      [] c.t = "Intersection"         -> with_children(c, intersection_next(c.left_iter, c.right_iter))
      [] c.t = "Difference"           -> with_children(c, difference_next(c.left_iter, c.right_iter))
      [] c.t = "SymmetricDifference"  ->
            with_children(c, symmetric_difference_next(c.left_iter, c.right_iter))
      [] c.t = "OrdSetOpsIter::Intersection" ->
            with_children(c, OrdSetOpsIter_Intersection_next(c.left_iter, c.right_iter))
      [] c.t = "OrdSetOpsIter::Union" ->
            with_children(c, OrdSetOpsIter_Union_next(c.left_iter, c.right_iter))

peep(c) ==
    CASE c.t = "OrdListSetIter"       -> OrdListSetIter_peep(c)
      [] c.t = "AltOrdListSetIter"    -> AltOrdListSetIter_peep(c)
      [] c.t = "Peekable"             -> Peekable_peep(c)
      [] c.t = "OrdSetOpsIterAdapter" -> OrdSetOpsIterAdapter_peek(c)
      [] c.t = "Union"                -> with_children(c, union_peep(c.left_iter, c.right_iter))
      [] c.t = "Intersection"         -> with_children(c, intersection_peep(c.left_iter, c.right_iter))
      [] c.t = "Difference"           -> with_children(c, difference_peep(c.left_iter, c.right_iter))
      [] c.t = "SymmetricDifference"  ->
            with_children(c, symmetric_difference_peep(c.left_iter, c.right_iter))
      [] c.t = "OrdSetOpsIter::Intersection" ->
            with_children(c, OrdSetOpsIter_Intersection_peek(c.left_iter, c.right_iter))
      [] c.t = "OrdSetOpsIter::Union" ->
            with_children(c, OrdSetOpsIter_Union_peek(c.left_iter, c.right_iter))

\* a merge node forwards advance_until to both children
\* advance_until forwarded to the left child only
forward_advance_until_left_only(c, target) ==
    [c EXCEPT !.left_iter = advance_until(c.left_iter, target)]

forward_advance_until(c, target) ==
    [c EXCEPT !.left_iter = advance_until(c.left_iter, target),
              !.right_iter = advance_until(c.right_iter, target)]

forward_advance_after(c, target) ==
    [c EXCEPT !.left_iter = advance_after(c.left_iter, target),
              !.right_iter = advance_after(c.right_iter, target)]

advance_until(c, target) ==
    CASE c.t = "OrdListSetIter"       -> OrdListSetIter_advance_until(c, target)
      [] c.t = "AltOrdListSetIter"    -> AltOrdListSetIter_advance_until(c, target)
      [] c.t = "Peekable"             -> default_advance_until(c, target)
      [] c.t = "OrdSetOpsIterAdapter" -> default_advance_until(c, target)
      [] OTHER                        -> forward_advance_until(c, target)

advance_after(c, target) ==
    CASE c.t = "OrdListSetIter"       -> OrdListSetIter_advance_after(c, target)
      [] c.t = "AltOrdListSetIter"    -> AltOrdListSetIter_advance_after(c, target)
      [] c.t = "Peekable"             -> default_advance_after(c, target)
      [] OTHER                        -> forward_advance_after(c, target)

\* what repeated next() yields from c until the first None
RECURSIVE drain(_)
drain(c) ==
    With(next(c), LAMBDA n :
    IF is_some(n.val) THEN <<unwrap(n.val)>> \o drain(n.iter) ELSE <<>>)

-----------------------------------------------------------------------------
(* A merge node over two fresh leaf cursors, or a standalone leaf cursor,   *)
(* driven by its caller                                                    *)

LeafKinds == {"OrdListSetIter", "AltOrdListSetIter", "Peekable"}

Leaf(kind, elements) ==
    CASE kind = "OrdListSetIter"       -> OrdListSetIter(elements)
      [] kind = "AltOrdListSetIter"    -> AltOrdListSetIter(elements)
      [] kind = "Peekable"             -> Peekable(elements)
      [] kind = "OrdSetOpsIterAdapter" -> OrdSetOpsIterAdapter(elements)

Node(kind, left_iter, right_iter) ==
    [t |-> kind, left_iter |-> left_iter, right_iter |-> right_iter]

InitialNodes ==
    {Node(k, Leaf(lf, A), Leaf(lf, B)) :
        k \in MergeKinds, lf \in LeafKinds, A \in SortedSeqs, B \in SortedSeqs}
    \cup
    {Node(k, OrdSetOpsIterAdapter(A), OrdSetOpsIterAdapter(B)) :
        k \in EnumKinds, A \in SortedSeqs, B \in SortedSeqs}

\* a fresh standalone leaf cursor, as OrdListSet::iter and BTreeSet::iter().peekable() make it
InitialLeaves == {Leaf(lf, elements) : lf \in LeafKinds, elements \in SortedSeqs}

Init ==
    /\ cur \in InitialNodes \cup InitialLeaves
    /\ out = <<>>
    /\ nones = 0
    /\ advanced = FALSE
    /\ lastOp = "new"
    /\ lastRes = None
    /\ lastArg = 0
    /\ prevIndex = 0
    /\ overflow_checks = FALSE
    /\ fault = FALSE
    /\ debug_assertions = FALSE
    /\ call = NoCall
    /\ ret = None

CallNext ==
    /\ nones < MaxPastEnd
    /\ cur' = next(cur).iter
    /\ lastRes' = next(cur).val
    /\ out' = out \o lastRes'
    /\ nones' = IF is_some(lastRes') THEN nones ELSE nones + 1
    /\ lastOp' = "next"
    /\ lastArg' = 0
    /\ UNCHANGED <<advanced, prevIndex, overflow_checks, fault, debug_assertions, call, ret>>

CallPeep ==
    /\ cur' = peep(cur).iter
    /\ lastRes' = peep(cur).val
    /\ lastOp' = "peep"
    /\ lastArg' = 0
    /\ UNCHANGED <<out, nones, advanced, prevIndex, overflow_checks, fault, debug_assertions, call, ret>>

CallAdvanceUntil ==
    \E target \in Targets :
        /\ cur' = advance_until(cur, target)
        /\ advanced' = TRUE
        /\ lastOp' = "advance_until"
        /\ lastRes' = None
        /\ lastArg' = 0
        /\ UNCHANGED <<out, nones, prevIndex, overflow_checks, fault, debug_assertions, call, ret>>

CallAdvanceAfter ==
    /\ cur.t \notin EnumKinds
    /\ \E target \in Targets :
        /\ cur' = advance_after(cur, target)
        /\ advanced' = TRUE
        /\ lastOp' = "advance_after"
        /\ lastRes' = None
        /\ lastArg' = 0
        /\ UNCHANGED <<out, nones, prevIndex, overflow_checks, fault, debug_assertions, call, ret>>

Next == CallNext \/ CallPeep \/ CallAdvanceUntil \/ CallAdvanceAfter

Spec == Init /\ [][Next]_vars

\* Draining only: the caller calls next() and peep(), never the advance calls.
NextDrain == CallNext \/ CallPeep

SpecDrain == Init /\ [][NextDrain]_vars

\* next() by a caller that keeps calling after None, however often: the
\* yielded sequence is not recorded and nones stops counting at MaxPastEnd
CallNextPastEnd ==
    /\ \E n \in {next(cur)} :
        /\ cur' = n.iter
        /\ lastRes' = n.val
        /\ nones' = IF is_some(n.val) \/ nones = MaxPastEnd THEN nones ELSE nones + 1
    /\ lastOp' = "next"
    /\ lastArg' = 0
    /\ UNCHANGED <<out, advanced, prevIndex, overflow_checks, fault, debug_assertions, call, ret>>

NextPastEnd == CallNextPastEnd \/ CallPeep \/ CallAdvanceUntil \/ CallAdvanceAfter

\* The node in a build without overflow checks, called without a limit.
SpecPastEnd == Init /\ [][NextPastEnd]_vars

-----------------------------------------------------------------------------
(* A standalone OrdListSetIter (of either crate) under every call of its   *)
(* interface, nth included, in a build with or without overflow checks.    *)
(* A call that panics sets fault and ends the run.                         *)

ListLeafKinds == {"OrdListSetIter", "AltOrdListSetIter"}

\* arguments of nth: every usize
NthArgs == 0..(UsizeModulus - 1)

\* the calls of the two OrdListSetIter types, by the cursor's type
Iter_next(c) ==
    CASE c.t = "OrdListSetIter"    -> OrdListSetIter_next(c)
      [] c.t = "AltOrdListSetIter" -> AltOrdListSetIter_next(c)

Iter_next_panics(c) ==
    CASE c.t = "OrdListSetIter"    -> OrdListSetIter_next_panics(c)
      [] c.t = "AltOrdListSetIter" -> AltOrdListSetIter_next_panics(c)

Iter_peep(c) ==
    CASE c.t = "OrdListSetIter"    -> OrdListSetIter_peep(c)
      [] c.t = "AltOrdListSetIter" -> AltOrdListSetIter_peep(c)

Iter_advance_until(c, t) ==
    CASE c.t = "OrdListSetIter"    -> OrdListSetIter_advance_until(c, t)
      [] c.t = "AltOrdListSetIter" -> AltOrdListSetIter_advance_until(c, t)

Iter_advance_after(c, t) ==
    CASE c.t = "OrdListSetIter"    -> OrdListSetIter_advance_after(c, t)
      [] c.t = "AltOrdListSetIter" -> AltOrdListSetIter_advance_after(c, t)

Iter_nth(c, n) ==
    CASE c.t = "OrdListSetIter"    -> OrdListSetIter_nth(c, n)
      [] c.t = "AltOrdListSetIter" -> AltOrdListSetIter_nth(c, n)

Iter_nth_panics(c, n) ==
    CASE c.t = "OrdListSetIter"    -> OrdListSetIter_nth_panics(c, n)
      [] c.t = "AltOrdListSetIter" -> AltOrdListSetIter_nth_panics(c, n)

Iter_collect(c) ==
    CASE c.t = "OrdListSetIter"    -> OrdListSetIter_collect(c)
      [] c.t = "AltOrdListSetIter" -> AltOrdListSetIter_collect(c)

Iter_collect_panics(c) ==
    CASE c.t = "OrdListSetIter"    -> OrdListSetIter_collect_panics(c)
      [] c.t = "AltOrdListSetIter" -> AltOrdListSetIter_collect_panics(c)

\* is_empty, len and size_hint have the same bodies in ord_list_set and in
\* ord_list_set_alt; both read index and elements only
OrdListSetIter_is_empty(c) == c.index >= Len(c.elements)

OrdListSetIter_len(c) ==
    IF OrdListSetIter_is_empty(c) THEN 0 ELSE Len(c.elements) - c.index

\* the subtraction of len is evaluated with index above elements.len()
OrdListSetIter_len_underflows(c) ==
    ~OrdListSetIter_is_empty(c) /\ c.index > Len(c.elements)

\* size_hint: (lower, upper) with upper an Option
OrdListSetIter_size_hint(c) ==
    IF c.index < Len(c.elements)
    THEN [lower |-> c.index, upper |-> Some(Len(c.elements) - c.index)]
    ELSE [lower |-> c.index, upper |-> None]

InitIter ==
    /\ cur \in {Leaf(lf, elements) : lf \in ListLeafKinds, elements \in SortedSeqs}
    /\ out = <<>>
    /\ nones = 0
    /\ advanced = FALSE
    /\ lastOp = "new"
    /\ lastRes = None
    /\ lastArg = 0
    /\ prevIndex = 0
    /\ overflow_checks \in BOOLEAN
    /\ fault = FALSE
    /\ debug_assertions = FALSE
    /\ call = NoCall
    /\ ret = None

\* the call op(arg) panics: the cursor is left as it was
Panic(op, arg) ==
    /\ fault' = TRUE
    /\ lastOp' = op
    /\ lastArg' = arg
    /\ lastRes' = None
    /\ prevIndex' = cur.index
    /\ UNCHANGED <<cur, out, nones, advanced, overflow_checks, debug_assertions, call, ret>>

\* the call op(arg) returns res and leaves the cursor c
Return(op, arg, res, c) ==
    /\ cur' = c
    /\ lastOp' = op
    /\ lastArg' = arg
    /\ lastRes' = res
    /\ prevIndex' = cur.index
    /\ UNCHANGED <<out, overflow_checks, fault, debug_assertions, call, ret>>

\* the cursor can be called: no call has panicked and collect has not consumed it
Live == ~fault /\ lastOp # "collect"

IterNext ==
    /\ Live
    /\ IF Iter_next_panics(cur)
       THEN Panic("next", 0)
       ELSE LET r == Iter_next(cur) IN
            /\ Return("next", 0, r.val, r.iter)
            /\ nones' = IF is_some(r.val) \/ nones = MaxPastEnd THEN nones ELSE nones + 1
            /\ UNCHANGED advanced

IterPeep ==
    /\ Live
    /\ LET p == Iter_peep(cur) IN Return("peep", 0, p.val, p.iter)
    /\ UNCHANGED <<nones, advanced>>

IterAdvanceUntil ==
    /\ Live
    /\ \E target \in Targets :
        /\ Return("advance_until", target, None, Iter_advance_until(cur, target))
        /\ advanced' = TRUE
        /\ UNCHANGED nones

IterAdvanceAfter ==
    /\ Live
    /\ \E target \in Targets :
        /\ Return("advance_after", target, None, Iter_advance_after(cur, target))
        /\ advanced' = TRUE
        /\ UNCHANGED nones

IterNth ==
    /\ Live
    /\ \E n \in NthArgs :
        IF Iter_nth_panics(cur, n)
        THEN Panic("nth", n)
        ELSE LET r == Iter_nth(cur, n) IN
             /\ Return("nth", n, r.val, r.iter)
             /\ nones' = IF is_some(r.val) \/ nones = MaxPastEnd THEN nones ELSE nones + 1
             /\ UNCHANGED advanced

\* collect takes the cursor by value: no call follows it
IterCollect ==
    /\ Live
    /\ IF Iter_collect_panics(cur)
       THEN Panic("collect", 0)
       ELSE Return("collect", 0, Iter_collect(cur), cur)
    /\ UNCHANGED <<nones, advanced>>

NextIter ==
    IterNext \/ IterPeep \/ IterAdvanceUntil \/ IterAdvanceAfter \/ IterNth \/ IterCollect

SpecIter == InitIter /\ [][NextIter]_vars

-----------------------------------------------------------------------------
(* Construction of an OrdListSet from an arbitrary finite collection: the  *)
(* constructors of ord_list_set/src/convert.rs, of                         *)
(* ord_list_set_alt/src/convert.rs and of ord_list_set/src/lib.rs, in a    *)
(* build with or without debug assertions                                  *)

RECURSIVE SeqsUpTo(_)
\* the sequences over Vals of length at most n
SeqsUpTo(n) ==
    IF n = 0 THEN {<<>>}
    ELSE SeqsUpTo(n - 1) \cup {Append(s, v) : s \in {q \in SeqsUpTo(n - 1) : Len(q) = n - 1}, v \in Vals}

\* the finite collections a constructor is given: any order, any repeats
Inputs == SeqsUpTo(MaxLen)

\* x put before the first element of the sorted sequence s that exceeds it
insert(s, x) ==
    IF \E i \in 1..Len(s) : s[i] > x
    THEN SubSeq(s, 1, Min({i \in 1..Len(s) : s[i] > x}) - 1) \o <<x>>
            \o SubSeq(s, Min({i \in 1..Len(s) : s[i] > x}), Len(s))
    ELSE Append(s, x)

RECURSIVE sort_unstable(_)
\* Vec::sort_unstable: the same elements, repeats kept, in ascending order
sort_unstable(members) ==
    IF members = <<>> THEN <<>>
    ELSE insert(sort_unstable(Tail(members)), Head(members))

\* dedup with every element kept
dedup_keeps_repeats(members) == members

RECURSIVE dedup(_)
\* Vec::dedup: all but the first of each run of consecutive equal elements removed
dedup(members) ==
    IF Len(members) <= 1 THEN members
    ELSE IF members[1] = members[2] THEN dedup(Tail(members))
    ELSE <<members[1]>> \o dedup(Tail(members))

RECURSIVE push_all(_, _)
\* for m in iter { members.push(m) }
push_all(members, iter) ==
    IF iter = <<>> THEN members
    ELSE push_all(Append(members, Head(iter)), Tail(iter))

\* the set value: its member sequence
OrdListSet(members) == [members |-> members]

\* ord_list_set/src/convert.rs
convert_from_array(members) == OrdListSet(dedup(sort_unstable(members)))

convert_from_slice(members) == OrdListSet(dedup(sort_unstable(members)))

convert_from_vec(members) == OrdListSet(dedup(sort_unstable(members)))

convert_from_iter(iter) == OrdListSet(dedup(sort_unstable(push_all(<<>>, iter))))

\* ord_list_set_alt/src/convert.rs (shrink_to_fit changes capacity only)
alt_convert_from_array(members) == OrdListSet(dedup(sort_unstable(members)))

alt_convert_from_slice(members) == OrdListSet(dedup(sort_unstable(members)))

alt_convert_from_iter(iter) == OrdListSet(dedup(sort_unstable(iter)))

\* ord_list_set/src/lib.rs: sorted, then asserted duplicate-free, never deduplicated
debug_assert_fails(cond) == debug_assertions /\ ~cond

OrdListSet_from_array(members) == OrdListSet(sort_unstable(members))

OrdListSet_from_array_panics(members) ==
    debug_assert_fails(is_sorted_and_no_dups(sort_unstable(members)))

OrdListSet_from_slice(members) == OrdListSet(sort_unstable(members))

OrdListSet_from_slice_panics(members) ==
    debug_assert_fails(is_sorted_and_no_dups(sort_unstable(members)))

OrdListSet_from_iter(iter) == OrdListSet(sort_unstable(iter))

OrdListSet_from_iter_panics(iter) ==
    debug_assert_fails(is_sorted_and_no_dups(sort_unstable(iter)))

ConvertCtors == {"convert::From<[T; N]>", "convert::From<&[T]>", "convert::From<Vec<T>>",
                 "convert::FromIterator"}

AltConvertCtors == {"alt::convert::From<[T; N]>", "alt::convert::From<&[T]>",
                    "alt::convert::FromIterator"}

LibCtors == {"From<[T; N]>", "From<&[T]>", "FromIterator"}

\* the constructor named fn applied to input
construct(fn, input) ==
    CASE fn = "convert::From<[T; N]>" -> convert_from_array(input)
      [] fn = "convert::From<&[T]>" -> convert_from_slice(input)
      [] fn = "convert::From<Vec<T>>" -> convert_from_vec(input)
      [] fn = "convert::FromIterator" -> convert_from_iter(input)
      [] fn = "alt::convert::From<[T; N]>" -> alt_convert_from_array(input)
      [] fn = "alt::convert::From<&[T]>" -> alt_convert_from_slice(input)
      [] fn = "alt::convert::FromIterator" -> alt_convert_from_iter(input)
      [] fn = "From<[T; N]>" -> OrdListSet_from_array(input)
      [] fn = "From<&[T]>" -> OrdListSet_from_slice(input)
      [] fn = "FromIterator" -> OrdListSet_from_iter(input)

construct_panics(fn, input) ==
    CASE fn = "From<[T; N]>" -> OrdListSet_from_array_panics(input)
      [] fn = "From<&[T]>" -> OrdListSet_from_slice_panics(input)
      [] fn = "FromIterator" -> OrdListSet_from_iter_panics(input)
      [] OTHER -> FALSE

InitFrom ==
    /\ cur = Leaf("OrdListSetIter", <<>>)
    /\ out = <<>>
    /\ nones = 0
    /\ advanced = FALSE
    /\ lastOp = "new"
    /\ lastRes = None
    /\ lastArg = 0
    /\ prevIndex = 0
    /\ overflow_checks = FALSE
    /\ fault = FALSE
    /\ debug_assertions \in BOOLEAN
    /\ call \in {[fn |-> "none", leaf |-> "none", members |-> input] : input \in Inputs}
    /\ ret = None

\* the constructor named fn is called on the input; a failed assertion panics
Construct(fn) ==
    /\ call' = [call EXCEPT !.fn = fn]
    /\ IF construct_panics(fn, call.members)
       THEN fault' = TRUE /\ ret' = None
       ELSE ret' = Some(construct(fn, call.members)) /\ UNCHANGED fault
    /\ UNCHANGED <<iterVars, debug_assertions>>

ConvertFrom ==
    /\ call.fn = "none"
    /\ \E fn \in ConvertCtors : Construct(fn)

AltConvertFrom ==
    /\ call.fn = "none"
    /\ \E fn \in AltConvertCtors : Construct(fn)

LibFrom ==
    /\ call.fn = "none"
    /\ \E fn \in LibCtors : Construct(fn)

\* iter.cloned().collect(): Cloned does not forward collect, so the cursor is drained by next()
From_OrdListSetIter(iter) == OrdListSet(drain(iter))

\* BTreeSet::from_iter(self.iter().cloned()): the set of the members, their order forgotten
Into_BTreeSet(self) == Range(drain(OrdListSetIter(self.members)))

RECURSIVE pop_all_first(_)
\* while let Some(member) = set.pop_first() { members.push(member) }
pop_all_first(set) ==
    IF set = {} THEN <<>>
    ELSE <<Min(set)>> \o pop_all_first(set \ {Min(set)})

\* From<BTreeSet> popping the greatest member first
From_BTreeSet_pop_last(set) ==
    OrdListSet([i \in 1..Cardinality(set) |-> pop_all_first(set)[Cardinality(set) + 1 - i]])

From_BTreeSet(set) == OrdListSet(pop_all_first(set))

\* a constructor has returned a set and no call has followed
Constructed == call.fn \in ConvertCtors \cup AltConvertCtors \cup LibCtors /\ is_some(ret)

\* OrdListSet::from(set.iter()) on the set just constructed
FromOrdListSetIter ==
    /\ Constructed
    /\ \E lf \in ListLeafKinds :
        /\ call' = [fn |-> "From<OrdListSetIter>", leaf |-> lf, members |-> unwrap(ret).members]
        /\ ret' = Some(From_OrdListSetIter(Leaf(lf, unwrap(ret).members)))
    /\ UNCHANGED <<iterVars, fault, debug_assertions>>

\* OrdListSet::from(Into::<BTreeSet<_>>::into(set)) on the set just constructed
FromBTreeSet ==
    /\ Constructed
    /\ call' = [fn |-> "From<BTreeSet>", leaf |-> "none", members |-> unwrap(ret).members]
    /\ ret' = Some(From_BTreeSet(Into_BTreeSet(unwrap(ret))))
    /\ UNCHANGED <<iterVars, fault, debug_assertions>>

NextFrom == ConvertFrom \/ AltConvertFrom \/ LibFrom \/ FromOrdListSetIter \/ FromBTreeSet

SpecFrom == InitFrom /\ [][NextFrom]_vars

-----------------------------------------------------------------------------
(* Set relationships: the macros of set_relationships.rs over two cursors, *)
(* and the provided methods of the enum-based trait OrdSetOpsIterator      *)
(* (IterSetOperations of ord_set_op_iter has the same bodies)              *)

RECURSIVE are_disjoint(_, _), left_is_superset_of_right(_, _), left_is_subset_of_right(_, _)

\* are_disjoint! deciding on the first pair of items, with no advance
are_disjoint_without_advance(left_iter, right_iter) ==
    With(peep(left_iter), LAMBDA l :
    IF is_some(l.val)
    THEN With(peep(right_iter), LAMBDA r : ~is_some(r.val))
    ELSE TRUE)

are_disjoint(left_iter, right_iter) ==
    With(peep(left_iter), LAMBDA l :
    IF is_some(l.val)
    THEN With(peep(right_iter), LAMBDA r :
         IF is_some(r.val)
         THEN IF unwrap(l.val) < unwrap(r.val)
              THEN are_disjoint(advance_until(l.iter, unwrap(r.val)), r.iter)
              ELSE IF unwrap(l.val) > unwrap(r.val)
              THEN are_disjoint(l.iter, advance_until(r.iter, unwrap(l.val)))
              ELSE FALSE
         ELSE TRUE)
    ELSE TRUE)

RECURSIVE left_is_superset_of_right_left_exhausted_true(_, _)
\* left_is_superset_of_right! answering true whenever the left cursor is exhausted
left_is_superset_of_right_left_exhausted_true(left_iter, right_iter) ==
    With(peep(left_iter), LAMBDA l :
    IF is_some(l.val)
    THEN With(peep(right_iter), LAMBDA r :
         IF is_some(r.val)
         THEN IF unwrap(l.val) < unwrap(r.val)
              THEN left_is_superset_of_right_left_exhausted_true(
                       advance_until(l.iter, unwrap(r.val)), r.iter)
              ELSE IF unwrap(l.val) > unwrap(r.val)
              THEN FALSE
              ELSE left_is_superset_of_right_left_exhausted_true(
                       next(l.iter).iter, next(r.iter).iter)
         ELSE TRUE)
    ELSE TRUE)

left_is_superset_of_right(left_iter, right_iter) ==
    With(peep(left_iter), LAMBDA l :
    IF is_some(l.val)
    THEN With(peep(right_iter), LAMBDA r :
         IF is_some(r.val)
         THEN IF unwrap(l.val) < unwrap(r.val)
              THEN left_is_superset_of_right(advance_until(l.iter, unwrap(r.val)), r.iter)
              ELSE IF unwrap(l.val) > unwrap(r.val)
              THEN FALSE
              ELSE left_is_superset_of_right(next(l.iter).iter, next(r.iter).iter)
         ELSE TRUE)
    ELSE ~is_some(peep(right_iter).val))

RECURSIVE left_is_subset_of_right_skips_less(_, _)
\* left_is_subset_of_right! with the Less arm skipping the left item
left_is_subset_of_right_skips_less(left_iter, right_iter) ==
    With(peep(left_iter), LAMBDA l :
    IF is_some(l.val)
    THEN With(peep(right_iter), LAMBDA r :
         IF is_some(r.val)
         THEN IF unwrap(l.val) < unwrap(r.val)
              THEN left_is_subset_of_right_skips_less(next(l.iter).iter, r.iter)
              ELSE IF unwrap(l.val) > unwrap(r.val)
              THEN left_is_subset_of_right_skips_less(
                       l.iter, advance_until(r.iter, unwrap(l.val)))
              ELSE left_is_subset_of_right_skips_less(next(l.iter).iter, next(r.iter).iter)
         ELSE FALSE)
    ELSE TRUE)

left_is_subset_of_right(left_iter, right_iter) ==
    With(peep(left_iter), LAMBDA l :
    IF is_some(l.val)
    THEN With(peep(right_iter), LAMBDA r :
         IF is_some(r.val)
         THEN IF unwrap(l.val) < unwrap(r.val)
              THEN FALSE
              ELSE IF unwrap(l.val) > unwrap(r.val)
              THEN left_is_subset_of_right(l.iter, advance_until(r.iter, unwrap(l.val)))
              ELSE left_is_subset_of_right(next(l.iter).iter, next(r.iter).iter)
         ELSE FALSE)
    ELSE TRUE)

RECURSIVE left_is_proper_superset_of_right_loop(_, _, _)
\* the loop of left_is_proper_superset_of_right!, result being its local variable
left_is_proper_superset_of_right_loop(left_iter, right_iter, result) ==
    With(peep(left_iter), LAMBDA l :
    IF is_some(l.val)
    THEN With(peep(right_iter), LAMBDA r :
         IF is_some(r.val)
         THEN IF unwrap(l.val) < unwrap(r.val)
              THEN left_is_proper_superset_of_right_loop(
                       advance_until(l.iter, unwrap(r.val)), r.iter, TRUE)
              ELSE IF unwrap(l.val) > unwrap(r.val)
              THEN FALSE
              ELSE left_is_proper_superset_of_right_loop(
                       next(l.iter).iter, next(r.iter).iter, result)
         ELSE TRUE)
    ELSE result /\ ~is_some(peep(right_iter).val))

\* left_is_proper_superset_of_right! answering as left_is_superset_of_right! does
left_is_proper_superset_of_right_not_proper(left_iter, right_iter) ==
    left_is_superset_of_right(left_iter, right_iter)

\* let mut result = false; loop { .. }
left_is_proper_superset_of_right(left_iter, right_iter) ==
    left_is_proper_superset_of_right_loop(left_iter, right_iter, FALSE)

RECURSIVE left_is_proper_subset_of_right_loop(_, _, _)
\* the loop of left_is_proper_subset_of_right!, result being its local variable
left_is_proper_subset_of_right_loop(left_iter, right_iter, result) ==
    With(peep(left_iter), LAMBDA l :
    IF is_some(l.val)
    THEN With(peep(right_iter), LAMBDA r :
         IF is_some(r.val)
         THEN IF unwrap(l.val) < unwrap(r.val)
              THEN FALSE
              ELSE IF unwrap(l.val) > unwrap(r.val)
              THEN left_is_proper_subset_of_right_loop(
                       l.iter, advance_until(r.iter, unwrap(l.val)), TRUE)
              ELSE left_is_proper_subset_of_right_loop(
                       next(l.iter).iter, next(r.iter).iter, result)
         ELSE FALSE)
    ELSE result \/ is_some(peep(right_iter).val))

\* left_is_proper_subset_of_right! answering as left_is_subset_of_right! does
left_is_proper_subset_of_right_not_proper(left_iter, right_iter) ==
    left_is_subset_of_right(left_iter, right_iter)

\* let mut result = false; loop { .. }
left_is_proper_subset_of_right(left_iter, right_iter) ==
    left_is_proper_subset_of_right_loop(left_iter, right_iter, FALSE)

RECURSIVE OrdSetOpsIterator_is_subset(_, _), OrdSetOpsIterator_is_superset(_, _)

\* while let Some(my_item) = self.peek() { .. } true
OrdSetOpsIterator_is_subset(self, other) ==
    With(peep(self), LAMBDA m :
    IF is_some(m.val)
    THEN With(peep(other), LAMBDA o :
         IF is_some(o.val)
         THEN IF unwrap(m.val) < unwrap(o.val)
              THEN FALSE
              ELSE IF unwrap(m.val) > unwrap(o.val)
              THEN OrdSetOpsIterator_is_subset(m.iter, advance_until(o.iter, unwrap(m.val)))
              ELSE OrdSetOpsIterator_is_subset(next(m.iter).iter, next(o.iter).iter)
         ELSE FALSE)
    ELSE TRUE)

\* while let Some(my_item) = self.peek() { .. } true
OrdSetOpsIterator_is_superset(self, other) ==
    With(peep(self), LAMBDA m :
    IF is_some(m.val)
    THEN With(peep(other), LAMBDA o :
         IF is_some(o.val)
         THEN IF unwrap(m.val) < unwrap(o.val)
              THEN OrdSetOpsIterator_is_superset(advance_until(m.iter, unwrap(o.val)), o.iter)
              ELSE IF unwrap(m.val) > unwrap(o.val)
              THEN FALSE
              ELSE OrdSetOpsIterator_is_superset(next(m.iter).iter, next(o.iter).iter)
         ELSE FALSE)
    ELSE TRUE)

RECURSIVE OrdSetOpsIterator_is_proper_subset_loop(_, _, _)
\* while let Some(my_item) = self.peek() { .. } result
OrdSetOpsIterator_is_proper_subset_loop(self, other, result) ==
    With(peep(self), LAMBDA m :
    IF is_some(m.val)
    THEN With(peep(other), LAMBDA o :
         IF is_some(o.val)
         THEN IF unwrap(m.val) < unwrap(o.val)
              THEN FALSE
              ELSE IF unwrap(m.val) > unwrap(o.val)
              THEN OrdSetOpsIterator_is_proper_subset_loop(
                       m.iter, advance_until(o.iter, unwrap(m.val)), TRUE)
              ELSE OrdSetOpsIterator_is_proper_subset_loop(
                       next(m.iter).iter, next(o.iter).iter, result)
         ELSE FALSE)
    ELSE result)

OrdSetOpsIterator_is_proper_subset(self, other) ==
    OrdSetOpsIterator_is_proper_subset_loop(self, other, FALSE)

-----------------------------------------------------------------------------
(* Two sets under one set-level call: a merge iterator collected, or a     *)
(* relationship asked                                                      *)

\* OrdListSet::union and its siblings, collected: the node over fresh cursors, drained
set_operation(kind, lf, left, right) == drain(Node(kind, Leaf(lf, left), Leaf(lf, right)))

\* OrdListSet::is_disjoint
is_disjoint(lf, left, right) == are_disjoint(Leaf(lf, left), Leaf(lf, right))

\* OrdListSet::is_subset
is_subset(lf, left, right) == left_is_subset_of_right(Leaf(lf, left), Leaf(lf, right))

\* OrdListSet::is_superset
is_superset(lf, left, right) == left_is_superset_of_right(Leaf(lf, left), Leaf(lf, right))

\* OrdListSet::is_proper_subset
is_proper_subset(lf, left, right) ==
    left_is_proper_subset_of_right(Leaf(lf, left), Leaf(lf, right))

\* OrdListSet::is_proper_superset
is_proper_superset(lf, left, right) ==
    left_is_proper_superset_of_right(Leaf(lf, left), Leaf(lf, right))

InitSets ==
    /\ cur = Leaf("OrdListSetIter", <<>>)
    /\ out = <<>>
    /\ nones = 0
    /\ advanced = FALSE
    /\ lastOp = "new"
    /\ lastRes = None
    /\ lastArg = 0
    /\ prevIndex = 0
    /\ overflow_checks = FALSE
    /\ fault = FALSE
    /\ debug_assertions = FALSE
    /\ call \in {[fn |-> "none", leaf |-> "none", left |-> left, right |-> right] :
                    left \in SortedSeqs, right \in SortedSeqs}
    /\ ret = None

\* the call fn is made on the two sets, iterated by cursors of kind lf, and returns res
Returns(fn, lf, res) ==
    /\ call' = [call EXCEPT !.fn = fn, !.leaf = lf]
    /\ ret' = Some(res)
    /\ UNCHANGED <<iterVars, fault, debug_assertions>>

SetOperation ==
    /\ call.fn = "none"
    /\ \E kind \in MergeKinds, lf \in LeafKinds :
        Returns(kind, lf, set_operation(kind, lf, call.left, call.right))

IsDisjoint ==
    /\ call.fn = "none"
    /\ \E lf \in LeafKinds :
        Returns("is_disjoint", lf, is_disjoint(lf, call.left, call.right))

IsSubset ==
    /\ call.fn = "none"
    /\ \E lf \in LeafKinds :
        Returns("is_subset", lf, is_subset(lf, call.left, call.right))

IsSuperset ==
    /\ call.fn = "none"
    /\ \E lf \in LeafKinds :
        Returns("is_superset", lf, is_superset(lf, call.left, call.right))

EnumIsSubset ==
    /\ call.fn = "none"
    /\ Returns("OrdSetOpsIterator::is_subset", "OrdSetOpsIterAdapter",
               OrdSetOpsIterator_is_subset(OrdSetOpsIterAdapter(call.left),
                                           OrdSetOpsIterAdapter(call.right)))

EnumIsSuperset ==
    /\ call.fn = "none"
    /\ Returns("OrdSetOpsIterator::is_superset", "OrdSetOpsIterAdapter",
               OrdSetOpsIterator_is_superset(OrdSetOpsIterAdapter(call.left),
                                             OrdSetOpsIterAdapter(call.right)))

IsProperSubset ==
    /\ call.fn = "none"
    /\ \E lf \in LeafKinds :
        Returns("is_proper_subset", lf, is_proper_subset(lf, call.left, call.right))

IsProperSuperset ==
    /\ call.fn = "none"
    /\ \E lf \in LeafKinds :
        Returns("is_proper_superset", lf, is_proper_superset(lf, call.left, call.right))

EnumIsProperSubset ==
    /\ call.fn = "none"
    /\ Returns("OrdSetOpsIterator::is_proper_subset", "OrdSetOpsIterAdapter",
               OrdSetOpsIterator_is_proper_subset(OrdSetOpsIterAdapter(call.left),
                                                  OrdSetOpsIterAdapter(call.right)))

NextSets ==
    \/ SetOperation \/ IsDisjoint \/ IsSubset \/ IsSuperset \/ EnumIsSubset \/ EnumIsSuperset
    \/ IsProperSubset \/ IsProperSuperset \/ EnumIsProperSubset

SpecSets == InitSets /\ [][NextSets]_vars

-----------------------------------------------------------------------------
(* Expressions over three sets: a merge node one of whose children is      *)
(* itself a merge node, collected                                          *)

InitExpr ==
    /\ cur = Leaf("OrdListSetIter", <<>>)
    /\ out = <<>>
    /\ nones = 0
    /\ advanced = FALSE
    /\ lastOp = "new"
    /\ lastRes = None
    /\ lastArg = 0
    /\ prevIndex = 0
    /\ overflow_checks = FALSE
    /\ fault = FALSE
    /\ debug_assertions = FALSE
    /\ call \in {[fn |-> "none", outer |-> "none", inner |-> "none", leaf |-> "none",
                  a |-> a, b |-> b, c |-> c] :
                    a \in SortedSeqs, b \in SortedSeqs, c \in SortedSeqs}
    /\ ret = None

\* the expression fn over cursors of kind lf has been collected into res
Collected(fn, outer, inner, lf, res) ==
    /\ call' = [call EXCEPT !.fn = fn, !.outer = outer, !.inner = inner, !.leaf = lf]
    /\ ret' = Some(res)
    /\ UNCHANGED <<iterVars, fault, debug_assertions>>

\* a.iter().inner(b.iter()).outer(c.iter()).collect()
NestedLeft ==
    /\ call.fn = "none"
    /\ \E outer \in MergeKinds, inner \in MergeKinds, lf \in LeafKinds :
        Collected("nested left", outer, inner, lf,
                  drain(Node(outer, Node(inner, Leaf(lf, call.a), Leaf(lf, call.b)),
                             Leaf(lf, call.c))))

\* c.iter().outer(a.iter().inner(b.iter())).collect()
NestedRight ==
    /\ call.fn = "none"
    /\ \E outer \in MergeKinds, inner \in MergeKinds, lf \in LeafKinds :
        Collected("nested right", outer, inner, lf,
                  drain(Node(outer, Leaf(lf, call.c),
                             Node(inner, Leaf(lf, call.a), Leaf(lf, call.b)))))

\* BTreeSet::oso_iter / iter().ord_set_ops(): the members in ascending order behind an adapter
oso_iter(set) == OrdSetOpsIterAdapter(SortedSeq(set))

\* iter.cloned().collect::<BTreeSet<_>>()
collect_BTreeSet(iter) == Range(drain(iter))

\* ((a.oso_iter() | b.oso_iter()) & c.oso_iter()).cloned().collect()
EnumExpression ==
    /\ call.fn = "none"
    /\ Collected("(a | b) & c", "OrdSetOpsIter::Intersection", "OrdSetOpsIter::Union",
                 "OrdSetOpsIterAdapter",
                 collect_BTreeSet(
                     Node("OrdSetOpsIter::Intersection",
                          Node("OrdSetOpsIter::Union",
                               oso_iter(Range(call.a)), oso_iter(Range(call.b))),
                          oso_iter(Range(call.c)))))

\* set4 = (a | b) collected; then (set4.oso_iter() & c.oso_iter()).cloned().collect()
EnumMaterialised ==
    /\ call.fn = "none"
    /\ Collected("set4 & c", "OrdSetOpsIter::Intersection", "OrdSetOpsIter::Union",
                 "OrdSetOpsIterAdapter",
                 collect_BTreeSet(
                     Node("OrdSetOpsIter::Intersection",
                          oso_iter(collect_BTreeSet(
                              Node("OrdSetOpsIter::Union",
                                   oso_iter(Range(call.a)), oso_iter(Range(call.b))))),
                          oso_iter(Range(call.c)))))

NextExpr == NestedLeft \/ NestedRight \/ EnumExpression \/ EnumMaterialised

SpecExpr == InitExpr /\ [][NextExpr]_vars

-----------------------------------------------------------------------------
(* Sub-slices and subsets of an OrdListSet selected by a range of values   *)

\* std::ops::Bound<&T>
Unbounded == [b |-> "Unbounded"]

Included(v) == [b |-> "Included", v |-> v]

Excluded(v) == [b |-> "Excluded", v |-> v]

\* bounds at members, between members, below and above every member
BoundVals == 0..(MaxVal + 1)

Bounds == {Unbounded} \cup {Included(v) : v \in BoundVals} \cup {Excluded(v) : v \in BoundVals}

\* usize::MAX
UsizeMax == UsizeModulus - 1

\* <[T]>::get(start..end): None when the range is inverted or reaches past the end
slice_get(s, start, end) ==
    IF start > end \/ end > Len(s) THEN None ELSE Some(SubSeq(s, start + 1, end))

\* <[T]>::get(start..=end)
slice_get_inclusive(s, start, end) ==
    IF end = UsizeMax THEN None ELSE slice_get(s, start, end + 1)

start_bound_for(members, bound) ==
    IF bound.b = "Unbounded" THEN Unbounded
    ELSE LET r == binary_search(members, bound.v) IN
         IF bound.b = "Included" THEN Included(r.index)
         ELSE IF r.ok THEN Excluded(r.index) ELSE Included(r.index)

end_bound_for(members, bound) ==
    IF bound.b = "Unbounded" THEN Unbounded
    ELSE LET r == binary_search(members, bound.v) IN
         IF bound.b = "Included"
         THEN IF r.ok THEN Included(r.index) ELSE Excluded(r.index)
         ELSE Excluded(r.index)

\* the arms for Bound::Included(start) and Bound::Excluded(start) are the same
usize_range_bounds(members, range) ==
    LET s == start_bound_for(members, range.start)
        e == end_bound_for(members, range.end)
    IN  IF s.b = "Unbounded"
        THEN IF e.b = "Unbounded" THEN [t |-> "RangeFull"]
             ELSE IF e.b = "Included" THEN [t |-> "RangeToInclusive", end |-> e.v]
             ELSE [t |-> "RangeTo", end |-> e.v]
        ELSE IF e.b = "Unbounded" THEN [t |-> "RangeFrom", start |-> s.v]
             ELSE IF e.b = "Included"
                  THEN [t |-> "RangeInclusive", start |-> s.v, end |-> e.v]
             ELSE [t |-> "Range", start |-> s.v, end |-> e.v]

items_private(members, urb) ==
    LET items ==
            CASE urb.t = "Range" -> slice_get(members, urb.start, urb.end)
              [] urb.t = "RangeFrom" -> slice_get(members, urb.start, Len(members))
              [] urb.t = "RangeFull" -> slice_get(members, 0, Len(members))
              [] urb.t = "RangeInclusive" -> slice_get_inclusive(members, urb.start, urb.end)
              [] urb.t = "RangeTo" -> slice_get(members, 0, urb.end)
              [] urb.t = "RangeToInclusive" -> slice_get_inclusive(members, 0, urb.end)
    IN  IF is_some(items) THEN unwrap(items) ELSE <<>>

item_items(self, range) == items_private(self.members, usize_range_bounds(self.members, range))

get_item_subset(self, range) == alt_convert_from_slice(item_items(self, range))

InitRange ==
    /\ cur = Leaf("OrdListSetIter", <<>>)
    /\ out = <<>>
    /\ nones = 0
    /\ advanced = FALSE
    /\ lastOp = "new"
    /\ lastRes = None
    /\ lastArg = 0
    /\ prevIndex = 0
    /\ overflow_checks = FALSE
    /\ fault = FALSE
    /\ debug_assertions = FALSE
    /\ call \in {[fn |-> "none", self |-> OrdListSet(members),
                  range |-> [start |-> start, end |-> end]] :
                    members \in SortedSeqs, start \in Bounds, end \in Bounds}
    /\ ret = None

\* the call fn on call.self with call.range returns res
Selected(fn, res) ==
    /\ call' = [call EXCEPT !.fn = fn]
    /\ ret' = Some(res)
    /\ UNCHANGED <<iterVars, fault, debug_assertions>>

ItemItems ==
    /\ call.fn = "none"
    /\ Selected("item_items", item_items(call.self, call.range))

GetItemSubset ==
    /\ call.fn = "none"
    /\ Selected("get_item_subset", get_item_subset(call.self, call.range))

NextRange == ItemItems \/ GetItemSubset

SpecRange == InitRange /\ [][NextRange]_vars

-----------------------------------------------------------------------------
(* The loops of the macros over two OrdListSetIter cursors, one iteration  *)
(* at a time: an iteration either breaks with the value of the macro or    *)
(* goes round again with the cursors (and, in the proper relationships,    *)
(* the flag result) it leaves behind                                       *)

Break(val, left_iter, right_iter) ==
    [brk |-> TRUE, val |-> val, left_iter |-> left_iter, right_iter |-> right_iter,
     result |-> FALSE]

Continue(left_iter, right_iter, result) ==
    [brk |-> FALSE, val |-> None, left_iter |-> left_iter, right_iter |-> right_iter,
     result |-> result]

are_disjoint_iteration(left_iter, right_iter, result) ==
    With(Iter_peep(left_iter), LAMBDA l :
    IF is_some(l.val)
    THEN With(Iter_peep(right_iter), LAMBDA r :
         IF is_some(r.val)
         THEN IF unwrap(l.val) < unwrap(r.val)
              THEN Continue(Iter_advance_until(l.iter, unwrap(r.val)), r.iter, result)
              ELSE IF unwrap(l.val) > unwrap(r.val)
              THEN Continue(l.iter, Iter_advance_until(r.iter, unwrap(l.val)), result)
              ELSE Break(FALSE, l.iter, r.iter)
         ELSE Break(TRUE, l.iter, r.iter))
    ELSE Break(TRUE, l.iter, right_iter))

left_is_superset_of_right_iteration(left_iter, right_iter, result) ==
    With(Iter_peep(left_iter), LAMBDA l :
    IF is_some(l.val)
    THEN With(Iter_peep(right_iter), LAMBDA r :
         IF is_some(r.val)
         THEN IF unwrap(l.val) < unwrap(r.val)
              THEN Continue(Iter_advance_until(l.iter, unwrap(r.val)), r.iter, result)
              ELSE IF unwrap(l.val) > unwrap(r.val)
              THEN Break(FALSE, l.iter, r.iter)
              ELSE Continue(Iter_next(l.iter).iter, Iter_next(r.iter).iter, result)
         ELSE Break(TRUE, l.iter, r.iter))
    ELSE With(Iter_peep(right_iter), LAMBDA r : Break(~is_some(r.val), l.iter, r.iter)))

left_is_proper_superset_of_right_iteration(left_iter, right_iter, result) ==
    With(Iter_peep(left_iter), LAMBDA l :
    IF is_some(l.val)
    THEN With(Iter_peep(right_iter), LAMBDA r :
         IF is_some(r.val)
         THEN IF unwrap(l.val) < unwrap(r.val)
              THEN Continue(Iter_advance_until(l.iter, unwrap(r.val)), r.iter, TRUE)
              ELSE IF unwrap(l.val) > unwrap(r.val)
              THEN Break(FALSE, l.iter, r.iter)
              ELSE Continue(Iter_next(l.iter).iter, Iter_next(r.iter).iter, result)
         ELSE Break(TRUE, l.iter, r.iter))
    ELSE With(Iter_peep(right_iter), LAMBDA r : Break(result /\ ~is_some(r.val), l.iter, r.iter)))

left_is_subset_of_right_iteration(left_iter, right_iter, result) ==
    With(Iter_peep(left_iter), LAMBDA l :
    IF is_some(l.val)
    THEN With(Iter_peep(right_iter), LAMBDA r :
         IF is_some(r.val)
         THEN IF unwrap(l.val) < unwrap(r.val)
              THEN Break(FALSE, l.iter, r.iter)
              ELSE IF unwrap(l.val) > unwrap(r.val)
              THEN Continue(l.iter, Iter_advance_until(r.iter, unwrap(l.val)), result)
              ELSE Continue(Iter_next(l.iter).iter, Iter_next(r.iter).iter, result)
         ELSE Break(FALSE, l.iter, r.iter))
    ELSE Break(TRUE, l.iter, right_iter))

left_is_proper_subset_of_right_iteration(left_iter, right_iter, result) ==
    With(Iter_peep(left_iter), LAMBDA l :
    IF is_some(l.val)
    THEN With(Iter_peep(right_iter), LAMBDA r :
         IF is_some(r.val)
         THEN IF unwrap(l.val) < unwrap(r.val)
              THEN Break(FALSE, l.iter, r.iter)
              ELSE IF unwrap(l.val) > unwrap(r.val)
              THEN Continue(l.iter, Iter_advance_until(r.iter, unwrap(l.val)), TRUE)
              ELSE Continue(Iter_next(l.iter).iter, Iter_next(r.iter).iter, result)
         ELSE Break(FALSE, l.iter, r.iter))
    ELSE With(Iter_peep(right_iter), LAMBDA r : Break(result \/ is_some(r.val), l.iter, r.iter)))

\* intersection_next! with the Less arm leaving the left cursor where it is
intersection_next_stays_iteration(left_iter, right_iter, result) ==
    With(Iter_peep(left_iter), LAMBDA l :
    IF is_some(l.val)
    THEN With(Iter_peep(right_iter), LAMBDA r :
         IF is_some(r.val)
         THEN IF unwrap(l.val) < unwrap(r.val)
              THEN Continue(l.iter, r.iter, result)
              ELSE IF unwrap(l.val) > unwrap(r.val)
              THEN Continue(l.iter, Iter_advance_until(r.iter, unwrap(l.val)), result)
              ELSE With(Iter_next(l.iter), LAMBDA n : Break(n.val, n.iter, Iter_next(r.iter).iter))
         ELSE Break(None, l.iter, r.iter))
    ELSE Break(None, l.iter, right_iter))

intersection_next_iteration(left_iter, right_iter, result) ==
    With(Iter_peep(left_iter), LAMBDA l :
    IF is_some(l.val)
    THEN With(Iter_peep(right_iter), LAMBDA r :
         IF is_some(r.val)
         THEN IF unwrap(l.val) < unwrap(r.val)
              THEN Continue(Iter_advance_until(l.iter, unwrap(r.val)), r.iter, result)
              ELSE IF unwrap(l.val) > unwrap(r.val)
              THEN Continue(l.iter, Iter_advance_until(r.iter, unwrap(l.val)), result)
              ELSE With(Iter_next(l.iter), LAMBDA n : Break(n.val, n.iter, Iter_next(r.iter).iter))
         ELSE Break(None, l.iter, r.iter))
    ELSE Break(None, l.iter, right_iter))

intersection_peep_iteration(left_iter, right_iter, result) ==
    With(Iter_peep(left_iter), LAMBDA l :
    IF is_some(l.val)
    THEN With(Iter_peep(right_iter), LAMBDA r :
         IF is_some(r.val)
         THEN IF unwrap(l.val) < unwrap(r.val)
              THEN Continue(Iter_advance_until(l.iter, unwrap(r.val)), r.iter, result)
              ELSE IF unwrap(l.val) > unwrap(r.val)
              THEN Continue(l.iter, Iter_advance_until(r.iter, unwrap(l.val)), result)
              ELSE Break(l.val, l.iter, r.iter)
         ELSE Break(None, l.iter, r.iter))
    ELSE Break(None, l.iter, right_iter))

difference_next_iteration(left_iter, right_iter, result) ==
    With(Iter_peep(left_iter), LAMBDA l :
    IF is_some(l.val)
    THEN With(Iter_peep(right_iter), LAMBDA r :
         IF is_some(r.val)
         THEN IF unwrap(l.val) < unwrap(r.val)
              THEN With(Iter_next(l.iter), LAMBDA n : Break(n.val, n.iter, r.iter))
              ELSE IF unwrap(l.val) > unwrap(r.val)
              THEN Continue(l.iter, Iter_advance_until(r.iter, unwrap(l.val)), result)
              ELSE Continue(Iter_next(l.iter).iter, Iter_next(r.iter).iter, result)
         ELSE With(Iter_next(l.iter), LAMBDA n : Break(n.val, n.iter, r.iter)))
    ELSE Break(None, l.iter, right_iter))

difference_peep_iteration(left_iter, right_iter, result) ==
    With(Iter_peep(left_iter), LAMBDA l :
    IF is_some(l.val)
    THEN With(Iter_peep(right_iter), LAMBDA r :
         IF is_some(r.val)
         THEN IF unwrap(l.val) < unwrap(r.val)
              THEN Break(l.val, l.iter, r.iter)
              ELSE IF unwrap(l.val) > unwrap(r.val)
              THEN Continue(l.iter, Iter_advance_until(r.iter, unwrap(l.val)), result)
              ELSE Continue(Iter_next(l.iter).iter, Iter_next(r.iter).iter, result)
         ELSE Break(l.val, l.iter, r.iter))
    ELSE Break(None, l.iter, right_iter))

symmetric_difference_next_iteration(left_iter, right_iter, result) ==
    With(Iter_peep(left_iter), LAMBDA l :
    IF is_some(l.val)
    THEN With(Iter_peep(right_iter), LAMBDA r :
         IF is_some(r.val)
         THEN IF unwrap(l.val) < unwrap(r.val)
              THEN With(Iter_next(l.iter), LAMBDA n : Break(n.val, n.iter, r.iter))
              ELSE IF unwrap(l.val) > unwrap(r.val)
              THEN With(Iter_next(r.iter), LAMBDA n : Break(n.val, l.iter, n.iter))
              ELSE Continue(Iter_next(l.iter).iter, Iter_next(r.iter).iter, result)
         ELSE With(Iter_next(l.iter), LAMBDA n : Break(n.val, n.iter, r.iter)))
    ELSE With(Iter_next(right_iter), LAMBDA n : Break(n.val, l.iter, n.iter)))

symmetric_difference_peep_iteration(left_iter, right_iter, result) ==
    With(Iter_peep(left_iter), LAMBDA l :
    IF is_some(l.val)
    THEN With(Iter_peep(right_iter), LAMBDA r :
         IF is_some(r.val)
         THEN IF unwrap(l.val) < unwrap(r.val)
              THEN Break(l.val, l.iter, r.iter)
              ELSE IF unwrap(l.val) > unwrap(r.val)
              THEN Break(r.val, l.iter, r.iter)
              ELSE Continue(Iter_next(l.iter).iter, Iter_next(r.iter).iter, result)
         ELSE Break(l.val, l.iter, r.iter))
    ELSE With(Iter_peep(right_iter), LAMBDA r : Break(r.val, l.iter, r.iter)))


\* more iterations than any loop over two sets of MaxVal elements can make
MaxIterations == 2 * MaxVal + 2

RelationshipMacros ==
    {"are_disjoint", "left_is_superset_of_right", "left_is_proper_superset_of_right",
     "left_is_subset_of_right", "left_is_proper_subset_of_right"}

\* the next! and peep! macros, by the merge node whose next() and peep() expand them
NodeMacros ==
    [Union               |-> {"union_next", "union_peep"},
     Intersection        |-> {"intersection_next", "intersection_peep"},
     Difference          |-> {"difference_next", "difference_peep"},
     SymmetricDifference |-> {"symmetric_difference_next", "symmetric_difference_peep"}]

\* one pass through the body of macro fn; union_next! and union_peep! have no loop
iteration(fn, left_iter, right_iter, result) ==
    CASE fn = "are_disjoint" -> are_disjoint_iteration(left_iter, right_iter, result)
      [] fn = "left_is_superset_of_right" ->
            left_is_superset_of_right_iteration(left_iter, right_iter, result)
      [] fn = "left_is_proper_superset_of_right" ->
            left_is_proper_superset_of_right_iteration(left_iter, right_iter, result)
      [] fn = "left_is_subset_of_right" ->
            left_is_subset_of_right_iteration(left_iter, right_iter, result)
      [] fn = "left_is_proper_subset_of_right" ->
            left_is_proper_subset_of_right_iteration(left_iter, right_iter, result)
      [] fn = "union_next" ->
            With(union_next(left_iter, right_iter), LAMBDA m :
                 Break(m.val, m.left_iter, m.right_iter))
      [] fn = "union_peep" ->
            With(union_peep(left_iter, right_iter), LAMBDA m :
                 Break(m.val, m.left_iter, m.right_iter))
      [] fn = "intersection_next" -> intersection_next_iteration(left_iter, right_iter, result)
      [] fn = "intersection_peep" -> intersection_peep_iteration(left_iter, right_iter, result)
      [] fn = "difference_next" -> difference_next_iteration(left_iter, right_iter, result)
      [] fn = "difference_peep" -> difference_peep_iteration(left_iter, right_iter, result)
      [] fn = "symmetric_difference_next" ->
            symmetric_difference_next_iteration(left_iter, right_iter, result)
      [] fn = "symmetric_difference_peep" ->
            symmetric_difference_peep_iteration(left_iter, right_iter, result)

InitLoop ==
    /\ cur = Leaf("OrdListSetIter", <<>>)
    /\ out = <<>>
    /\ nones = 0
    /\ advanced = FALSE
    /\ lastOp = "new"
    /\ lastRes = None
    /\ lastArg = 0
    /\ prevIndex = 0
    /\ overflow_checks = FALSE
    /\ fault = FALSE
    /\ debug_assertions = FALSE
    /\ call \in {[fn |-> "none", left |-> left, right |-> right] :
                    left \in SortedSeqs, right \in SortedSeqs}
    /\ ret = None

\* macro fn is entered with the cursors left_iter and right_iter
Enter(fn, node, left_iter, right_iter) ==
    /\ call' = [fn |-> fn, node |-> node, left |-> call.left, right |-> call.right,
                entry_left |-> left_iter, entry_right |-> right_iter,
                left_iter |-> left_iter, right_iter |-> right_iter, result |-> FALSE,
                iterations |-> 0]
    /\ ret' = None
    /\ UNCHANGED <<iterVars, fault, debug_assertions>>

\* a relationship of the two sets is asked for: both are iterated from their first element
EnterRelationship ==
    /\ call.fn = "none"
    /\ \E fn \in RelationshipMacros, lf \in ListLeafKinds :
        Enter(fn, "none", Leaf(lf, call.left), Leaf(lf, call.right))

\* next() or peep() is called on a fresh merge node over the two sets
EnterNode ==
    /\ call.fn = "none"
    /\ \E node \in MergeKinds, lf \in ListLeafKinds :
        \E fn \in NodeMacros[node] :
            Enter(fn, node, Leaf(lf, call.left), Leaf(lf, call.right))

\* next() or peep() is called again on the node, on the cursors the last call left
EnterAgain ==
    /\ call.fn \notin RelationshipMacros \cup {"none"}
    /\ ret # None
    /\ \E fn \in NodeMacros[call.node] :
        Enter(fn, call.node, call.left_iter, call.right_iter)

\* the body of the loop runs once
Iterate ==
    /\ call.fn # "none"
    /\ ret = None
    /\ call.iterations < MaxIterations
    /\ \E i \in {iteration(call.fn, call.left_iter, call.right_iter, call.result)} :
        /\ call' = [call EXCEPT !.left_iter = i.left_iter, !.right_iter = i.right_iter,
                                !.result = i.result, !.iterations = @ + 1]
        /\ ret' = IF i.brk THEN Some(i.val) ELSE None
    /\ UNCHANGED <<iterVars, fault, debug_assertions>>

NextLoop == EnterRelationship \/ EnterNode \/ EnterAgain \/ Iterate

SpecLoop == InitLoop /\ [][NextLoop]_vars

-----------------------------------------------------------------------------
(* The comparisons one advance_until makes: the binary search of the two   *)
(* OrdListSetIter types against the default linear scan                    *)

MaxRemaining == 7

\* targets below, among and above the elements
CostTargets == 0..(MaxRemaining + 1)

\* item < t, then the comparisons of binary_search over the remaining slice
OrdListSetIter_advance_until_comparisons(c, t) ==
    LET item == get(c.elements, c.index) IN
    IF is_some(item)
    THEN IF unwrap(item) < t
         THEN 1 + binary_search(slice_from(c.elements, c.index), t).comparisons
         ELSE 1
    ELSE 0

\* target > item once for every element consumed and once for the element that stops the scan
RECURSIVE default_advance_until_comparisons(_, _)
default_advance_until_comparisons(c, target) ==
    With(peep(c), LAMBDA p :
    IF is_some(p.val)
    THEN IF target > unwrap(p.val)
         THEN 1 + default_advance_until_comparisons(next(p.iter).iter, target)
         ELSE 1
    ELSE 0)

InitCost ==
    /\ cur = Leaf("OrdListSetIter", <<>>)
    /\ out = <<>>
    /\ nones = 0
    /\ advanced = FALSE
    /\ lastOp = "new"
    /\ lastRes = None
    /\ lastArg = 0
    /\ prevIndex = 0
    /\ overflow_checks = FALSE
    /\ fault = FALSE
    /\ debug_assertions = FALSE
    /\ call \in {[fn |-> "none", leaf |-> "none", elements |-> SortedSeq(S),
                  from |-> from, target |-> target] :
                    S \in SUBSET (1..MaxRemaining), from \in CostTargets, target \in CostTargets}
    /\ ret = None

\* advance_until(target) on the cursor before has made so many comparisons and left the cursor after
Advanced(fn, lf, comparisons, before, after) ==
    /\ call' = [call EXCEPT !.fn = fn, !.leaf = lf]
    /\ ret' = Some([comparisons |-> comparisons, before |-> before, after |-> after])
    /\ UNCHANGED <<iterVars, fault, debug_assertions>>

\* a cursor that advance_until(call.from) has moved into the set is advanced to call.target
BinaryAdvanceUntil ==
    /\ call.fn = "none"
    /\ \E lf \in ListLeafKinds :
        \E before \in {Iter_advance_until(Leaf(lf, call.elements), call.from)} :
            Advanced("OrdListSetIter::advance_until", lf,
                     OrdListSetIter_advance_until_comparisons(before, call.target),
                     before, Iter_advance_until(before, call.target))

DefaultAdvanceUntil ==
    /\ call.fn = "none"
    /\ \E before \in {default_advance_until(Peekable(call.elements), call.from)} :
        Advanced("PeepAdvanceIter::advance_until", "Peekable",
                 default_advance_until_comparisons(before, call.target),
                 before, default_advance_until(before, call.target))

NextCost == BinaryAdvanceUntil \/ DefaultAdvanceUntil

SpecCost == InitCost /\ [][NextCost]_vars

-----------------------------------------------------------------------------
(* first_and_tail, applied to a set and then to each tail in turn          *)

\* the crates with an OrdListSet, by the From<[T; N]> that makes their sets
Crates == {"ord_list_set", "ord_list_set_alt"}

from_array(crate, members) ==
    CASE crate = "ord_list_set"     -> OrdListSet_from_array(members)
      [] crate = "ord_list_set_alt" -> alt_convert_from_array(members)

from_array_panics(crate, members) ==
    crate = "ord_list_set" /\ OrdListSet_from_array_panics(members)

\* Self::from(self.items(start..))
get_subset_from(crate, self, start) ==
    LET items == items_private(self.members, [t |-> "RangeFrom", start |-> start]) IN
    CASE crate = "ord_list_set"     -> OrdListSet_from_slice(items)
      [] crate = "ord_list_set_alt" -> alt_convert_from_slice(items)

get_subset_from_panics(crate, self, start) ==
    /\ crate = "ord_list_set"
    /\ OrdListSet_from_slice_panics(
           items_private(self.members, [t |-> "RangeFrom", start |-> start]))

\* let first = self.members.first()?; Some((first, self.get_subset(1..)))
first_and_tail(crate, self) ==
    IF self.members = <<>> THEN None
    ELSE Some([first |-> self.members[1], tail |-> get_subset_from(crate, self, 1)])

first_and_tail_panics(crate, self) ==
    self.members # <<>> /\ get_subset_from_panics(crate, self, 1)

InitTail ==
    /\ cur = Leaf("OrdListSetIter", <<>>)
    /\ out = <<>>
    /\ nones = 0
    /\ advanced = FALSE
    /\ lastOp = "new"
    /\ lastRes = None
    /\ lastArg = 0
    /\ prevIndex = 0
    /\ overflow_checks = FALSE
    /\ fault = FALSE
    /\ debug_assertions \in BOOLEAN
    /\ call \in {[fn |-> "none", crate |-> crate, input |-> input] :
                    crate \in Crates, input \in Inputs}
    /\ ret = None

\* let mut set1 = OrdListSet::from(input)
FromArray ==
    /\ call.fn = "none"
    /\ IF from_array_panics(call.crate, call.input)
       THEN /\ fault' = TRUE
            /\ call' = [call EXCEPT !.fn = "from"]
       ELSE /\ call' = [fn |-> "from", crate |-> call.crate, input |-> call.input,
                        original |-> from_array(call.crate, call.input),
                        self |-> from_array(call.crate, call.input),
                        set1 |-> from_array(call.crate, call.input), steps |-> 0]
            /\ UNCHANGED fault
    /\ ret' = None
    /\ UNCHANGED <<iterVars, debug_assertions>>

\* while let Some((key, tail)) = set1.first_and_tail() { set1 = tail }
FirstAndTail ==
    /\ call.fn # "none"
    /\ ~fault
    /\ call.fn = "first_and_tail" => ret # Some(None)
    /\ IF first_and_tail_panics(call.crate, call.set1)
       THEN /\ fault' = TRUE
            /\ UNCHANGED <<call, ret>>
       ELSE /\ ret' = Some(first_and_tail(call.crate, call.set1))
            /\ call' = [call EXCEPT
                   !.fn = "first_and_tail",
                   !.self = call.set1,
                   !.set1 = IF is_some(first_and_tail(call.crate, call.set1))
                            THEN unwrap(first_and_tail(call.crate, call.set1)).tail
                            ELSE @,
                   !.steps = IF is_some(first_and_tail(call.crate, call.set1))
                             THEN @ + 1 ELSE @]
            /\ UNCHANGED fault
    /\ UNCHANGED <<iterVars, debug_assertions>>

NextTail == FromArray \/ FirstAndTail

SpecTail == InitTail /\ [][NextTail]_vars

-----------------------------------------------------------------------------
(* The SetRelationships trait of the boxed OrdSetOpsIter of                *)
(* ord_set_iter_set_ops: each method clones its operands and runs its own  *)
(* loop over the clones                                                    *)

\* What one pass of a method's loop does with the items its two clones peep:
\* it returns the answer, or it moves a clone (or both) and goes round again,
\* with the value of its local result.
ReturnAnswer(val) == [t |-> "return", val |-> val]

AdvanceSelf(result) == [t |-> "self_iter.advance_until(other_item)", result |-> result]

AdvanceOther(result) == [t |-> "other_iter.advance_until(my_item)", result |-> result]

NextBoth(result) == [t |-> "other_iter.next(); self_iter.next()", result |-> result]

SetRelationships_is_disjoint(my_item, other_item, result) ==
    IF is_some(my_item)
    THEN IF is_some(other_item)
         THEN IF unwrap(my_item) < unwrap(other_item) THEN AdvanceSelf(result)
              ELSE IF unwrap(my_item) > unwrap(other_item) THEN AdvanceOther(result)
              ELSE ReturnAnswer(FALSE)
         ELSE ReturnAnswer(TRUE)
    ELSE ReturnAnswer(TRUE)

SetRelationships_is_subset(my_item, other_item, result) ==
    IF is_some(my_item)
    THEN IF is_some(other_item)
         THEN IF unwrap(my_item) < unwrap(other_item) THEN ReturnAnswer(FALSE)
              ELSE IF unwrap(my_item) > unwrap(other_item) THEN AdvanceOther(result)
              ELSE NextBoth(result)
         ELSE ReturnAnswer(FALSE)
    ELSE ReturnAnswer(TRUE)

\* is_subset answering for is_proper_subset
SetRelationships_is_proper_subset_not_proper(my_item, other_item, result) ==
    SetRelationships_is_subset(my_item, other_item, result)

\* let mut result = false; while let Some(my_item) = self_iter.peep() { .. }
\* result || other_iter.peep().is_some()
SetRelationships_is_proper_subset(my_item, other_item, result) ==
    IF is_some(my_item)
    THEN IF is_some(other_item)
         THEN IF unwrap(my_item) < unwrap(other_item) THEN ReturnAnswer(FALSE)
              ELSE IF unwrap(my_item) > unwrap(other_item) THEN AdvanceOther(TRUE)
              ELSE NextBoth(result)
         ELSE ReturnAnswer(FALSE)
    ELSE ReturnAnswer(result \/ is_some(other_item))

SetRelationships_is_superset(my_item, other_item, result) ==
    IF is_some(my_item)
    THEN IF is_some(other_item)
         THEN IF unwrap(my_item) < unwrap(other_item) THEN AdvanceSelf(result)
              ELSE IF unwrap(my_item) > unwrap(other_item) THEN ReturnAnswer(FALSE)
              ELSE NextBoth(result)
         ELSE ReturnAnswer(TRUE)
    ELSE ReturnAnswer(~is_some(other_item))

SetRelationships_is_proper_superset(my_item, other_item, result) ==
    IF is_some(my_item)
    THEN IF is_some(other_item)
         THEN IF unwrap(my_item) < unwrap(other_item) THEN AdvanceSelf(TRUE)
              ELSE IF unwrap(my_item) > unwrap(other_item) THEN ReturnAnswer(FALSE)
              ELSE NextBoth(result)
         ELSE ReturnAnswer(TRUE)
    ELSE ReturnAnswer(result /\ ~is_some(other_item))

\* the methods of the trait
SetRelationshipsMethods ==
    {"is_disjoint", "is_subset", "is_proper_subset", "is_superset", "is_proper_superset"}

\* the methods that peep other_iter after self_iter has run out
PeepsOtherAtTheEnd == {"is_proper_subset", "is_superset", "is_proper_superset"}

\* one pass of the loop of a method
SetRelationships_pass(method, my_item, other_item, result) ==
    CASE method = "is_disjoint" -> SetRelationships_is_disjoint(my_item, other_item, result)
      [] method = "is_subset" -> SetRelationships_is_subset(my_item, other_item, result)
      [] method = "is_proper_subset" -> SetRelationships_is_proper_subset(my_item, other_item, result)
      [] method = "is_superset" -> SetRelationships_is_superset(my_item, other_item, result)
      [] method = "is_proper_superset" ->
            SetRelationships_is_proper_superset(my_item, other_item, result)

\* the loop of the method, run on the two clones: it returns
\* merged(answer, self_iter, other_iter), the answer and the clones as it leaves them
RECURSIVE SetRelationships_loop(_, _, _, _)
SetRelationships_loop(method, self_iter, other_iter, result) ==
    With(peep(self_iter), LAMBDA m :
    With(IF is_some(m.val) \/ method \in PeepsOtherAtTheEnd
         THEN peep(other_iter)
         ELSE [val |-> None, iter |-> other_iter], LAMBDA o :
    With(SetRelationships_pass(method, m.val, o.val, result), LAMBDA pass :
    CASE pass.t = "return" -> merged(pass.val, m.iter, o.iter)
      [] pass.t = "self_iter.advance_until(other_item)" ->
            SetRelationships_loop(method, advance_until(m.iter, unwrap(o.val)), o.iter, pass.result)
      [] pass.t = "other_iter.advance_until(my_item)" ->
            SetRelationships_loop(method, m.iter, advance_until(o.iter, unwrap(m.val)), pass.result)
      [] pass.t = "other_iter.next(); self_iter.next()" ->
            SetRelationships_loop(method, next(m.iter).iter, next(o.iter).iter, pass.result))))

SetRelationships(method, self_iter, other_iter) ==
    SetRelationships_loop(method, self_iter, other_iter, FALSE)

\* An OrdSetOpsIter is a box: store holds the boxed iterators, and an
\* OrdSetOpsIter is the place of its box in store.

\* a clone that is the operand's own box instead of a copy of it
OrdSetOpsIter_clone_shared(store, iter) == [store |-> store, iter |-> iter]

\* a new box holding a copy of the boxed iterator
OrdSetOpsIter_clone(store, iter) ==
    [store |-> Append(store, store[iter]), iter |-> Len(store) + 1]

OrdSetOpsIterOperations == {"difference", "intersection", "symmetric_difference", "union"}

\* XIterator { left_iter: self.clone(), right_iter: other.clone() }
OrdSetOpsIter_set_operation(operation, store, self, other) ==
    LET left_iter == OrdSetOpsIter_clone(store, self)
        right_iter == OrdSetOpsIter_clone(left_iter.store, other)
        kind == CASE operation = "difference" -> "Difference"
                  [] operation = "intersection" -> "Intersection"
                  [] operation = "symmetric_difference" -> "SymmetricDifference"
                  [] operation = "union" -> "Union"
    IN [store |-> right_iter.store, iter |-> Node(kind, left_iter.iter, right_iter.iter)]

\* self.iter.next() of the boxed node: its two operands are advanced in their boxes
OrdSetOpsIter_next(store, iter) ==
    With(next(Node(iter.t, store[iter.left_iter], store[iter.right_iter])), LAMBDA n :
    [val   |-> n.val,
     store |-> [store EXCEPT ![iter.left_iter] = n.iter.left_iter,
                             ![iter.right_iter] = n.iter.right_iter]])

\* let mut self_iter = self.clone(); let mut other_iter = other.clone(); and the loop
OrdSetOpsIter_SetRelationships(method, store, self, other) ==
    LET self_iter == OrdSetOpsIter_clone(store, self)
        other_iter == OrdSetOpsIter_clone(self_iter.store, other)
    IN With(SetRelationships(method, other_iter.store[self_iter.iter], other_iter.store[other_iter.iter]),
            LAMBDA a :
            [val   |-> a.val,
             store |-> [other_iter.store EXCEPT ![self_iter.iter] = a.left_iter,
                                                ![other_iter.iter] = a.right_iter]])

\* the boxed iterators of the two sets, each over a cursor of kind lf
Operands(lf) == <<Leaf(lf, call.left), Leaf(lf, call.right)>>

\* a method of the trait is called on the boxed iterators of the two sets
CallSetRelationships ==
    /\ call.fn = "none"
    /\ \E method \in SetRelationshipsMethods, lf \in LeafKinds :
       \E a \in {OrdSetOpsIter_SetRelationships(method, Operands(lf), 1, 2)} :
        /\ call' = [fn |-> method, leaf |-> lf, left |-> call.left, right |-> call.right,
                    store |-> a.store]
        /\ ret' = Some(a.val)
    /\ UNCHANGED <<iterVars, fault, debug_assertions>>

\* a set operation is called on the boxed iterators of the two sets
CallSetOperation ==
    /\ call.fn = "none"
    /\ \E operation \in OrdSetOpsIterOperations, lf \in LeafKinds :
       \E a \in {OrdSetOpsIter_set_operation(operation, Operands(lf), 1, 2)} :
        /\ call' = [fn |-> operation, leaf |-> lf, left |-> call.left, right |-> call.right,
                    store |-> a.store, iter |-> a.iter, yielded |-> <<>>, drained |-> FALSE]
        /\ ret' = None
    /\ UNCHANGED <<iterVars, fault, debug_assertions>>

\* the iterator a set operation returned is drained, one next() at a time
ResultNext ==
    /\ call.fn \in OrdSetOpsIterOperations
    /\ ~call.drained
    /\ \E n \in {OrdSetOpsIter_next(call.store, call.iter)} :
        /\ call' = [call EXCEPT !.store = n.store,
                                !.yielded = @ \o n.val,
                                !.drained = ~is_some(n.val)]
        /\ ret' = n.val
    /\ UNCHANGED <<iterVars, fault, debug_assertions>>

NextRel == CallSetRelationships \/ CallSetOperation \/ ResultNext

SpecRel == InitSets /\ [][NextRel]_vars

-----------------------------------------------------------------------------
(* The operands of the node under test and the reference results *)

A == Range(cur.left_iter.elements)

B == Range(cur.right_iter.elements)

\* next() has returned None: the drain is complete
Drained == nones > 0

\* C1: draining the macro-based intersection with next() yields exactly the
\* elements present in both A and B, ascending, each once.
C1_IntersectionDrained ==
    (cur.t = "Intersection" /\ Drained) => out = SortedSeq(A \cap B)

C1_Witness ==
    /\ cur.t = "Intersection" /\ Drained
    /\ Len(out) >= 1
    /\ Cardinality(A) > Len(out) /\ Cardinality(B) > Len(out)

\* C2: draining the macro-based difference with next() yields exactly the
\* elements of A that are not in B, ascending (the rest of A once B is
\* exhausted, nothing more once A is exhausted).
C2_DifferenceDrained ==
    (cur.t = "Difference" /\ Drained) => out = SortedSeq(A \ B)

C2_Witness ==
    /\ cur.t = "Difference" /\ Drained
    /\ Len(out) >= 2
    /\ A \cap B # {}
    /\ \E x \in A \ B : \A y \in B : y < x

\* C3: draining the macro-based union with next() yields every element of A
\* or B, ascending, an element present in both exactly once.
C3_UnionDrained ==
    (cur.t = "Union" /\ Drained) => out = SortedSeq(A \cup B)

C3_Witness ==
    /\ cur.t = "Union" /\ Drained
    /\ A \cap B # {} /\ A \ B # {} /\ B \ A # {}

\* C4: draining the macro-based symmetric difference with next() yields
\* exactly the elements in one of A, B but not in both, ascending.
C4_SymmetricDifferenceDrained ==
    (cur.t = "SymmetricDifference" /\ Drained) => out = SortedSeq((A \ B) \cup (B \ A))

C4_Witness ==
    /\ cur.t = "SymmetricDifference" /\ Drained
    /\ A \cap B # {} /\ A \ B # {} /\ B \ A # {}
    /\ Len(out) >= 2

\* C5: draining the enum-based intersection (OrdSetOpsIter::Intersection,
\* SetOperationIter::Intersection) with next() yields exactly the elements
\* common to A and B, ascending, whichever operand is on the left.
C5_EnumIntersectionDrained ==
    (cur.t = "OrdSetOpsIter::Intersection" /\ Drained) => out = SortedSeq(A \cap B)

C7_PeepIdempotent ==
    [][(cur.t \notin EnumKinds /\ lastOp' = "peep")
         => /\ drain(cur') = drain(cur)
            /\ lastOp = "peep" => lastRes' = lastRes]_vars

\* a peep on a fresh Difference node has consumed a common element from both children
\* and returned the element after it
C7_Witness ==
    /\ cur.t = "Difference"
    /\ lastOp = "peep" /\ is_some(lastRes)
    /\ cur.left_iter # Leaf(cur.left_iter.t, cur.left_iter.elements)
    /\ cur.right_iter # Leaf(cur.right_iter.t, cur.right_iter.elements)
    /\ out = <<>> /\ ~advanced

C9_IndexNeverDecreases ==
    cur.index >= prevIndex

\* the first element of s that is at least t, None when there is none
FirstAtLeast(s, t) ==
    IF \E i \in 1..Len(s) : s[i] >= t
    THEN Some(s[CHOOSE i \in 1..Len(s) : s[i] >= t /\ \A j \in 1..(i - 1) : s[j] < t])
    ELSE None

\* C10: after advance_until(t) on an OrdListSetIter, peep() is None or an
\* element >= t, every element skipped is < t, and the cursor rests on the
\* first remaining element >= t (the insertion point when t is not a member).
C10_AdvanceUntilLandsOnTarget ==
    lastOp = "advance_until" =>
        LET t == lastArg
            p == Iter_peep(cur).val
        IN  /\ p = None \/ unwrap(p) >= t
            /\ cur.index >= prevIndex
            /\ \A i \in (prevIndex + 1)..cur.index : cur.elements[i] < t
            /\ p = FirstAtLeast(slice_from(cur.elements, prevIndex), t)
            /\ (t \notin Range(cur.elements) /\ p # None) => unwrap(p) > t

\* a target that is not a member, elements skipped, and the cursor on the element after it
C10_Witness ==
    /\ lastOp = "advance_until"
    /\ lastArg \notin Range(cur.elements)
    /\ cur.index > prevIndex
    /\ is_some(Iter_peep(cur).val)

\* the elements of s that are at least t, in order
at_least(s, t) == SelectSeq(s, LAMBDA x : x >= t)

UnorderedWithRepeats(s) ==
    /\ \E i, j \in 1..Len(s) : i < j /\ s[i] > s[j]
    /\ \E i, j \in 1..Len(s) : i < j /\ s[i] = s[j]

\* C12: every constructor of the convert modules (From<[T; N]>, From<&[T]>,
\* From<Vec<T>>, FromIterator), given any finite input in any order and with
\* any repeats, returns a member sequence that is strictly increasing and
\* holds exactly the distinct elements of the input.
C12_ConvertConstructorsNormalise ==
    call.fn \in ConvertCtors \cup AltConvertCtors
        => /\ ~fault
           /\ is_some(ret)
           /\ is_sorted_and_no_dups(unwrap(ret).members)
           /\ Range(unwrap(ret).members) = Range(call.members)

C12_Witness ==
    /\ call.fn = "convert::From<Vec<T>>"
    /\ UnorderedWithRepeats(call.members)
    /\ is_some(ret)
    /\ Len(unwrap(ret).members) = 2

\* C13: construction by From<[T; N]>, From<&[T]> and FromIterator of
\* ord_list_set/src/lib.rs always succeeds: for every finite input, repeats
\* included, the assertion after sorting holds and the stored sequence is
\* strictly increasing and duplicate-free.
C13_LibConstructorsNormalise ==
    call.fn \in LibCtors
        => /\ ~fault
           /\ is_some(ret)
           /\ is_sorted_and_no_dups(unwrap(ret).members)

\* OrdListSetIter::len of the cursor as it was before the last call
LenBefore ==
    IF prevIndex >= Len(cur.elements) THEN 0 ELSE Len(cur.elements) - prevIndex

\* C14: using an OrdListSetIter (of either crate) past its end is never a
\* fault: once the cursor is at or beyond its end, peep() and next() return
\* None, and collect() in any state returns the remaining elements without
\* an out-of-range slice access.
C14_PastEndIsNeverAFault ==
    /\ (lastOp \in {"peep", "next"} /\ prevIndex >= Len(cur.elements))
           => ~fault /\ lastRes = None
    /\ lastOp = "collect"
           => ~fault /\ lastRes = SubSeq(cur.elements, prevIndex + 1, Len(cur.elements))

\* C15: in ord_list_set_alt, nth(n) returns None whenever n is at least the
\* number of elements remaining, and otherwise returns the n-th remaining
\* element and removes it and all preceding elements from the iterator.
C15_AltNthNoneBeyondEnd ==
    (cur.t = "AltOrdListSetIter" /\ lastOp = "nth")
        => /\ ~fault
           /\ IF lastArg >= LenBefore
              THEN lastRes = None
              ELSE /\ lastRes = Some(cur.elements[prevIndex + lastArg + 1])
                   /\ slice_from(cur.elements, cur.iter)
                          = slice_from(cur.elements, prevIndex + lastArg + 1)

\* C16: the macro-based union, intersection and symmetric difference each
\* yield the same sequence when the two operands are exchanged.
C16_MergeCommutes ==
    call.fn \in {"Union", "Intersection", "SymmetricDifference"}
        => unwrap(ret) = set_operation(call.fn, call.leaf, call.right, call.left)

C16_Witness ==
    /\ call.fn = "Union"
    /\ call.left # <<>>
    /\ call.right # <<>>
    /\ call.left # call.right
    /\ Len(unwrap(ret)) > Len(call.left)
    /\ Len(unwrap(ret)) > Len(call.right)

\* C17: left_is_subset_of_right!(A, B) answers as left_is_superset_of_right!(B, A)
\* does, so OrdListSet::is_subset(A, B) = OrdListSet::is_superset(B, A), and
\* the other way round.
C17_SubsetIsSwappedSuperset ==
    /\ call.fn = "is_subset"
           => unwrap(ret) = is_superset(call.leaf, call.right, call.left)
    /\ call.fn = "is_superset"
           => unwrap(ret) = is_subset(call.leaf, call.right, call.left)

C17_Witness ==
    /\ call.fn = "is_subset"
    /\ ret = Some(TRUE)
    /\ call.left # <<>>
    /\ Len(call.left) < Len(call.right)

\* C18: for the enum-based iterators, is_superset(A, B) is true exactly when
\* every element of B is an element of A, so that is_subset(A, B) =
\* is_superset(B, A); an empty A against a non-empty B gives false.
C18_EnumIsSupersetExact ==
    /\ call.fn = "OrdSetOpsIterator::is_superset"
           => unwrap(ret) = (Range(call.right) \subseteq Range(call.left))
    /\ call.fn = "OrdSetOpsIterator::is_subset"
           => unwrap(ret) = OrdSetOpsIterator_is_superset(OrdSetOpsIterAdapter(call.right),
                                                          OrdSetOpsIterAdapter(call.left))

\* C19: is_disjoint(A, B) (are_disjoint!) is true exactly when the macro-based
\* intersection of A and B yields no element: false once an Equal comparison
\* is reached, true when either cursor is exhausted first.
C19_DisjointIffIntersectionEmpty ==
    call.fn = "is_disjoint"
        => /\ unwrap(ret) = (set_operation("Intersection", call.leaf, call.left, call.right) = <<>>)
           /\ unwrap(ret) = (Range(call.left) \cap Range(call.right) = {})

C19_Witness ==
    /\ call.fn = "is_disjoint"
    /\ ret = Some(FALSE)
    /\ call.left[1] # call.right[1]

\* C20: left_is_subset_of_right!(A, B) (OrdListSet::is_subset) is true exactly
\* when every element of A is an element of B: A exhausted first gives true,
\* B exhausted while A has an element gives false, an element of A below B's
\* current element gives false.
C20_IsSubsetExact ==
    call.fn = "is_subset"
        => unwrap(ret) = (Range(call.left) \subseteq Range(call.right))

C20_Witness ==
    /\ call.fn = "is_subset"
    /\ ret = Some(FALSE)
    /\ call.right # <<>>
    /\ Range(call.right) \subseteq Range(call.left)

\* A is a subset of B and B has an element that is not in A
ProperSubset(a, b) == Range(a) \subseteq Range(b) /\ Range(a) # Range(b)

\* C21: left_is_proper_subset_of_right!(A, B) (OrdListSet::is_proper_subset)
\* is true exactly when every element of A is in B and B has an element that
\* is not in A; it is false for A = B, both empty included.
C21_IsProperSubsetExact ==
    call.fn = "is_proper_subset"
        => unwrap(ret) = ProperSubset(call.left, call.right)

C21_Witness ==
    /\ call.fn = "is_proper_subset"
    /\ ret = Some(FALSE)
    /\ call.left = call.right
    /\ call.left # <<>>

\* C22: left_is_proper_superset_of_right!(A, B) answers as
\* left_is_proper_subset_of_right!(B, A) does.
C22_ProperSupersetIsSwappedProperSubset ==
    call.fn = "is_proper_superset"
        => unwrap(ret) = is_proper_subset(call.leaf, call.right, call.left)

C22_Witness ==
    /\ call.fn = "is_proper_superset"
    /\ ret = Some(TRUE)
    /\ call.right # <<>>
    /\ call.left[1] < call.right[1]

\* C23: for the enum-based iterators, is_proper_subset(A, B) is true exactly
\* when every element of A is in B and B has an element that is not in A,
\* also when B's extra elements all come after the last element of A.
C23_EnumIsProperSubsetExact ==
    call.fn = "OrdSetOpsIterator::is_proper_subset"
        => unwrap(ret) = ProperSubset(call.left, call.right)

\* C24: for every valid OrdListSet S (its members strictly increasing),
\* draining S.iter() into a new OrdListSet gives a set equal to S whose
\* iteration yields the same sequence, and converting S into a BTreeSet and
\* back gives a set equal to S.
C24_RoundTrip ==
    /\ (call.fn = "From<OrdListSetIter>" /\ is_sorted_and_no_dups(call.members))
           => /\ unwrap(ret) = OrdListSet(call.members)
              /\ drain(Leaf(call.leaf, unwrap(ret).members)) = call.members
    /\ (call.fn = "From<BTreeSet>" /\ is_sorted_and_no_dups(call.members))
           => unwrap(ret) = OrdListSet(call.members)

C24_Witness ==
    /\ call.fn = "From<BTreeSet>"
    /\ is_sorted_and_no_dups(call.members)
    /\ Len(call.members) = MaxLen
    /\ is_some(ret)

\* the set a merge of kind yields from the sets X and Y
Reference(kind, X, Y) ==
    CASE kind = "Union" -> X \cup Y
      [] kind = "Intersection" -> X \cap Y
      [] kind = "Difference" -> X \ Y
      [] kind = "SymmetricDifference" -> (X \ Y) \cup (Y \ X)

\* C25: a macro-based merge node whose child is itself a merge node yields
\* the reference result of the whole expression, ascending, each element
\* once: Intersection(Union(A, B), C) yields (A u B) n C, Difference(Union(A,
\* C), B) yields (A u C) minus B, and so for every pair of kinds and for the
\* inner node on either side.
C25_NestedNodesCompose ==
    /\ call.fn = "nested left"
           => unwrap(ret) = SortedSeq(Reference(call.outer,
                                Reference(call.inner, Range(call.a), Range(call.b)),
                                Range(call.c)))
    /\ call.fn = "nested right"
           => unwrap(ret) = SortedSeq(Reference(call.outer,
                                Range(call.c),
                                Reference(call.inner, Range(call.a), Range(call.b))))

C25_Witness ==
    /\ call.fn = "nested left"
    /\ call.outer = "Intersection"
    /\ call.inner = "Union"
    /\ Range(call.a) \cap Range(call.b) = {}
    /\ Len(unwrap(ret)) = 2
    /\ unwrap(ret)[1] \in Range(call.a)
    /\ unwrap(ret)[2] \in Range(call.b)
    /\ Len(call.c) = MaxVal

\* C26: for all BTreeSets A, B, C, draining the enum-based expression
\* (A.oso_iter() | B.oso_iter()) & C.oso_iter() yields exactly the set
\* (A u B) n C, and so does intersecting the union first collected into a set.
C26_EnumExpressionExact ==
    call.fn \in {"(a | b) & c", "set4 & c"}
        => unwrap(ret) = (Range(call.a) \cup Range(call.b)) \cap Range(call.c)

\* the first element of s that is greater than t, None when there is none
FirstGreater(s, t) ==
    IF \E i \in 1..Len(s) : s[i] > t
    THEN Some(s[CHOOSE i \in 1..Len(s) : s[i] > t /\ \A j \in 1..(i - 1) : s[j] <= t])
    ELSE None

RangeContains(range, m) ==
    /\ range.start.b = "Included" => range.start.v <= m
    /\ range.start.b = "Excluded" => range.start.v < m
    /\ range.end.b = "Included" => m <= range.end.v
    /\ range.end.b = "Excluded" => m < range.end.v

\* the members of self that the range contains
MembersIn(self, range) == {m \in Range(self.members) : RangeContains(range, m)}

\* C28: item_items(r) is the ascending slice of exactly the members that r
\* contains (empty when there is none) and get_item_subset(r) is the set of
\* those members, for every combination of start and end bounds.
C28_ItemRangeExact ==
    /\ call.fn = "item_items" =>
           unwrap(ret) = SortedSeq(MembersIn(call.self, call.range))
    /\ call.fn = "get_item_subset" =>
           unwrap(ret) = OrdListSet(SortedSeq(MembersIn(call.self, call.range)))

\* what the macro fn, run as a whole on the cursors l and r, returns and leaves behind
Macro(fn, l, r) ==
    CASE fn = "are_disjoint" -> merged(are_disjoint(l, r), None, None)
      [] fn = "left_is_superset_of_right" -> merged(left_is_superset_of_right(l, r), None, None)
      [] fn = "left_is_proper_superset_of_right" ->
            merged(left_is_proper_superset_of_right(l, r), None, None)
      [] fn = "left_is_subset_of_right" -> merged(left_is_subset_of_right(l, r), None, None)
      [] fn = "left_is_proper_subset_of_right" ->
            merged(left_is_proper_subset_of_right(l, r), None, None)
      [] fn = "union_next" -> union_next(l, r)
      [] fn = "union_peep" -> union_peep(l, r)
      [] fn = "intersection_next" -> intersection_next(l, r)
      [] fn = "intersection_peep" -> intersection_peep(l, r)
      [] fn = "difference_next" -> difference_next(l, r)
      [] fn = "difference_peep" -> difference_peep(l, r)
      [] fn = "symmetric_difference_next" -> symmetric_difference_next(l, r)
      [] fn = "symmetric_difference_peep" -> symmetric_difference_peep(l, r)

\* the number of elements a cursor has yet to yield
Remaining(c) == Len(drain(c))

\* the macro is running: entered and not yet returned
Running == call.fn # "none" /\ ret = None

\* the answer of a returned macro: a boolean for a relationship, the macro's value and cursors for a node
DefiniteAnswer ==
    (call.fn # "none" /\ ret # None) =>
        IF call.fn \in RelationshipMacros
        THEN /\ unwrap(ret) \in BOOLEAN
             /\ unwrap(ret) = Macro(call.fn, call.entry_left, call.entry_right).val
        ELSE merged(unwrap(ret), call.left_iter, call.right_iter)
                 = Macro(call.fn, call.entry_left, call.entry_right)

\* an iteration exits, or moves no cursor back and at least one forward
ExitsOrAdvances ==
    Running =>
        \/ ret' # None
        \/ /\ Remaining(call'.left_iter) <= Remaining(call.left_iter)
           /\ Remaining(call'.right_iter) <= Remaining(call.right_iter)
           /\ Remaining(call'.left_iter) + Remaining(call'.right_iter)
                  < Remaining(call.left_iter) + Remaining(call.right_iter)

\* every iteration that did not exit has consumed an element: a loop entered with
\* n elements left in its two cursors together has returned after n + 1 iterations
BoundedIterations ==
    call.fn # "none" =>
        LET n == Remaining(call.entry_left) + Remaining(call.entry_right) IN
        /\ call.iterations <= n + 1
        /\ Running =>
               call.iterations + Remaining(call.left_iter) + Remaining(call.right_iter) <= n

\* C29: on finite inputs every call of next() or peep() on a macro-based merge
\* node and every relationship macro returns with a definite answer (true or
\* false for a relationship): every iteration of a loop either exits or
\* strictly advances at least one of the two cursors, so the number of
\* iterations is bounded by the number of elements left.
C29_EveryQueryTerminates ==
    /\ [][ExitsOrAdvances]_vars
    /\ [](BoundedIterations /\ DefiniteAnswer)

\* a relationship has answered after advancing both cursors, each past at least one element
C29_Witness ==
    /\ call.fn \in RelationshipMacros
    /\ ret # None
    /\ call.iterations > 2
    /\ Remaining(call.left_iter) < Len(call.left)
    /\ Remaining(call.right_iter) < Len(call.right)

\* the integer part of the logarithm to base 2 of n >= 1
Log2(n) == CHOOSE k \in 0..n : 2^k <= n /\ n < 2^(k + 1)

\* the elements the advance of ret has skipped
Skipped == Remaining(unwrap(ret).before) - Remaining(unwrap(ret).after)

C31_FirstAndTail ==
    call.fn = "first_and_tail" =>
        LET S == call.self.members
            r == unwrap(ret)
        IN  IF S = <<>>
            THEN /\ r = None
                 /\ call.steps = Len(call.original.members)
            ELSE /\ is_some(r)
                 /\ unwrap(r).first = Min(Range(S))
                 /\ Len(unwrap(r).tail.members) + 1 = Len(S)
                 /\ unwrap(r).first \notin Range(unwrap(r).tail.members)
                 /\ Range(unwrap(r).tail.members) = Range(S) \ {unwrap(r).first}

\* C32: from every position of an OrdListSetIter over a strictly increasing
\* slice and for every target, the binary-search advance_until and
\* advance_after leave the cursor where the default linear scans of
\* PeepAdvanceIter would leave it.
C32_BinarySearchAgreesWithLinearScan ==
    \A t \in Targets :
        /\ Iter_advance_until(cur, t).index = default_advance_until(cur, t).index
        /\ Iter_peep(Iter_advance_until(cur, t)).val = peep(default_advance_until(cur, t)).val
        /\ Iter_advance_after(cur, t).index = default_advance_after(cur, t).index
        /\ Iter_peep(Iter_advance_after(cur, t)).val = peep(default_advance_after(cur, t)).val

\* a cursor inside the slice from which both advances still skip elements
C32_Witness ==
    /\ cur.index > 0
    /\ \E t \in Targets : Iter_advance_until(cur, t).index > cur.index + 1
    /\ \E t \in Targets : Iter_advance_after(cur, t).index > Iter_advance_until(cur, t).index

\* the macro that answers the same question as a method of SetRelationships
MacroFor(method, l, r) ==
    CASE method = "is_disjoint" -> are_disjoint(l, r)
      [] method = "is_subset" -> left_is_subset_of_right(l, r)
      [] method = "is_proper_subset" -> left_is_proper_subset_of_right(l, r)
      [] method = "is_superset" -> left_is_superset_of_right(l, r)
      [] method = "is_proper_superset" -> left_is_proper_superset_of_right(l, r)

\* C33: for all strictly increasing A and B, each method of SetRelationships
\* on the boxed OrdSetOpsIter returns what the corresponding set_relationships
\* macro returns on the same inputs.
C33_TraitAgreesWithMacros ==
    call.fn \in SetRelationshipsMethods =>
        unwrap(ret) = MacroFor(call.fn, Leaf(call.leaf, call.left), Leaf(call.leaf, call.right))

\* a proper subset, told apart from a subset by the trait as by the macro
C33_Witness ==
    /\ call.fn = "is_proper_subset"
    /\ unwrap(ret) = TRUE
    /\ Len(call.left) >= 2
    /\ Len(call.right) > Len(call.left)

\* C34: in every state of an OrdListSetIter, past the end included, len() is
\* the number of elements next() still yields, the subtraction of len never
\* underflows, and is_empty() is true exactly when peep() returns None.
C34_LenIsRemaining ==
    /\ OrdListSetIter_len(cur) = Len(drain(cur))
    /\ ~OrdListSetIter_len_underflows(cur)
    /\ OrdListSetIter_is_empty(cur) <=> Iter_peep(cur).val = None

\* C35: in every state of an OrdListSetIter, size_hint() returns a lower bound
\* that is at most the number of elements next() still yields and an upper
\* bound that, when present, is at least that number.
C35_SizeHintBrackets ==
    LET hint == OrdListSetIter_size_hint(cur) IN
    /\ hint.lower <= Len(drain(cur))
    /\ is_some(hint.upper) => unwrap(hint.upper) >= Len(drain(cur))

\* C36: the OrdListSetIter of ord_list_set_alt keeps index and its slice
\* iterator in step: after any calls of next, advance_until, advance_after
\* and nth, peep() returns the value the next() that follows it returns.
C36_PeepIsWhatNextReturns ==
    (cur.t = "AltOrdListSetIter" /\ ~AltOrdListSetIter_next_panics(cur)) =>
        AltOrdListSetIter_peep(cur).val = AltOrdListSetIter_next(cur).val

\* C37: exhaustion of a merge node, macro-based or enum-based, is permanent:
\* once next() has returned None, every later next() and peep() returns None,
\* whatever advance_until and advance_after calls came in between.
C37_ExhaustionIsPermanent ==
    (cur.t \in MergeKinds \cup EnumKinds /\ nones > 0) =>
        /\ next(cur).val = None
        /\ peep(cur).val = None

\* C38: the set operations and the SetRelationships predicates of the boxed
\* OrdSetOpsIter work on clones: after the call, and after the returned
\* iterator has been drained, each operand still yields the sequence it would
\* have yielded before the call.
C38_OperandsKeepTheirSequence ==
    call.fn \in OrdSetOpsIterOperations \cup SetRelationshipsMethods =>
        /\ drain(call.store[1]) = drain(Leaf(call.leaf, call.left))
        /\ drain(call.store[2]) = drain(Leaf(call.leaf, call.right))

\* a drained set operation that yielded elements and consumed both clones
C38_Witness ==
    /\ call.fn \in OrdSetOpsIterOperations
    /\ call.drained
    /\ Len(call.yielded) >= 2
    /\ drain(call.store[3]) = <<>>
    /\ drain(call.store[4]) = <<>>
    /\ Len(drain(call.store[1])) >= 2

====
